---- MODULE Spec2Model ----
(***************************************************************************)
(* Durable scheduler + publish pipeline of KintaroAI/x.                    *)
(*                                                                         *)
(* The store is PostgreSQL at READ COMMITTED: a transaction's writes are   *)
(* private until it commits, every statement reads the committed state,    *)
(* SELECT ... FOR UPDATE serialises the transactions that touch one row.   *)
(* The dedupe store (Redis) and the queue (Celery broker) take effect at   *)
(* once, outside any database transaction.                                 *)
(* Instants are whole minutes on one UTC timeline.                         *)
(***************************************************************************)
EXTENDS Integers, Sequences, FiniteSets, Bags, TLC

\* ---------------------------------------------------------------- bounds
MaxTime == 7         \* the last minute observed
MaxJobs == 2         \* values the publish_jobs id sequence hands out
MaxMsgs == 3         \* publish.post messages the broker accepts in all
MaxInFlight == 2     \* task runs and API requests under way at one time
MaxRuns == 6         \* task runs and API requests started in all
MaxCalls == 3        \* calls of the resolver followed on one cache

\* ---------------------------------------------------- program constants
MAX_ATTEMPTS == 5    \* retry_job(job_id, max_attempts=5)
TIMEOUT_MINUTES == 5 \* cleanup_orphaned_jobs(timeout_minutes=5)
COOLDOWN_MINUTES == 1 \* find_orphaned_enqueued_jobs(re_enqueue_cooldown_minutes=1)

MAX_RRULE_LENGTH == 4000 \* _validate_rrule: MAX_RRULE_LENGTH
MAX_CACHE_SIZE == 1000   \* scheduler_service.MAX_CACHE_SIZE

DRY_RUN_ID == 0      \* the id "dry_run_123" create_twitter_post returns in dry-run mode

NULL == 0 - 1        \* SQL NULL / Python None in an integer column

RAISES == 0 - 2      \* the outcome of a call that raises an exception

\* The minutes at which the system is observed: the first fire of the
\* schedules, and a minute more than TIMEOUT_MINUTES later.
Instants == {1, MaxTime}

PostIds == {1}
TemplateIds == {1}
VariantIds == {1, 2}
Ticks == {1, 2}
Workers == {1, 2}

\* ------------------------------------------------------- job state machine
PLANNED == "planned"
ENQUEUED == "enqueued"
RUNNING == "running"
SUCCEEDED == "succeeded"
FAILED == "failed"
CANCELLED == "cancelled"
DEAD_LETTER == "dead_letter"

PublishJobStatus ==
  {PLANNED, ENQUEUED, RUNNING, SUCCEEDED, FAILED, CANCELLED, DEAD_LETTER}

VALID_TRANSITIONS ==
  [s \in PublishJobStatus |->
     CASE s = PLANNED  -> {ENQUEUED, CANCELLED}
       [] s = ENQUEUED -> {RUNNING, CANCELLED}
       [] s = RUNNING  -> {SUCCEEDED, FAILED}
       [] s = FAILED   -> {RUNNING, DEAD_LETTER}
       [] OTHER        -> {}]

TERMINAL_STATES == {SUCCEEDED, DEAD_LETTER, CANCELLED}

is_valid_transition(from_status, to_status) ==
  /\ from_status \in DOMAIN VALID_TRANSITIONS
  /\ to_status \in VALID_TRANSITIONS[from_status]

\* is_terminal_state as it would be if only succeeded counted as terminal.
only_succeeded_is_terminal(status) == status = SUCCEEDED

is_terminal_state(status) == status \in TERMINAL_STATES

\* ------------------------------------------------------------------ state
VARIABLES
  now,            \* datetime.utcnow(), in minutes
  dry_run,        \* os.getenv("DRY_RUN") = "true"
  post_deleted,   \* posts.deleted, per post id
  variant_active, \* post_variants.active, per variant id (all of template 1)
  schedules,      \* committed rows of schedules, by id
  jobs,           \* committed rows of publish_jobs, by id
  job_seq,        \* last value handed out by the publish_jobs id sequence
  history,        \* committed rows of variant_selection_history
  published,      \* committed rows of published_posts, in insertion order
  ext_seq,        \* last post id the external endpoint handed out
  posted,         \* posts the external endpoint accepted, per job id
  queue,          \* bag of publish.post messages held by the broker
  sent,           \* number of messages the broker has accepted
  dedupe,         \* keys "dedupe:{schedule_id}:{planned_at}" in the dedupe store
  tick,           \* scheduler_tick replicas: position, session, row locks
  wk,             \* publish_post executions: position and locals
  returned,       \* job ids for which publish_post returned "already_completed"
  sw,             \* cleanup_orphaned_jobs run: position and locals
  del,            \* delete_post request: position and locals
  ip,             \* instant_publish request: position and locals
  response,       \* what the last preview, cancel_job or retry_job call returned
  rrule_cache,    \* _rrule_cache of the process that resolves: entries, oldest first
  runs            \* number of task runs and API requests started

vars == <<now, dry_run, post_deleted, variant_active, schedules, jobs, job_seq,
          history, published, ext_seq, posted, queue, sent, dedupe,
          tick, wk, returned, sw, del, ip, response, rrule_cache, runs>>

JobIds == 1..MaxJobs

\* ------------------------------------------------------------ rows
\* Schedule row (models.Schedule); spec is the one-shot instant, or the
\* period p of the crontab "*/p * * * *".
ScheduleRow(post_id, template_id, kind, spec, next_run_at, policy) ==
  [post_id |-> post_id, template_id |-> template_id, kind |-> kind,
   schedule_spec |-> spec, next_run_at |-> next_run_at, last_run_at |-> NULL,
   created_at |-> 0,
   enabled |-> TRUE, selection_policy |-> policy, no_repeat_window |-> 0,
   no_repeat_scope |-> "template", last_variant_pos |-> NULL]

\* The PublishJob row as it would be if planned_at were taken from the clock.
JobRowPlannedNow(schedule_id, planned_at, variant_id, t) ==
  [schedule_id |-> schedule_id, planned_at |-> t, status |-> PLANNED,
   attempt |-> 0, enqueued_at |-> NULL, started_at |-> NULL,
   finished_at |-> NULL, updated_at |-> t, error |-> FALSE,
   variant_id |-> variant_id]

\* PublishJob row as the tick and instant_publish insert it (models.PublishJob
\* column defaults: attempt 0, the timestamps NULL).
JobRow(schedule_id, planned_at, variant_id, t) ==
  [schedule_id |-> schedule_id, planned_at |-> planned_at, status |-> PLANNED,
   attempt |-> 0, enqueued_at |-> NULL, started_at |-> NULL,
   finished_at |-> NULL, updated_at |-> t, error |-> FALSE,
   variant_id |-> variant_id]

\* f with the row r stored under the key k (INSERT, or UPDATE of the row).
Put(f, k, r) == [x \in DOMAIN f \cup {k} |-> IF x = k THEN r ELSE f[x]]

\* publish_jobs as it would be without the UNIQUE constraint: no insert is
\* ever refused.
no_unique_constraint(js, schedule_id, planned_at) == FALSE

\* UNIQUE (schedule_id, planned_at) on publish_jobs: TRUE when a row of js
\* already carries the pair.
unique_schedule_planned_at(js, schedule_id, planned_at) ==
  \E j \in DOMAIN js :
    js[j].schedule_id = schedule_id /\ js[j].planned_at = planned_at

\* r with the columns of kw overwritten (setattr(job, key, value) per kwarg).
SetFields(r, kw) == [f \in DOMAIN r |-> IF f \in DOMAIN kw THEN kw[f] ELSE r[f]]

\* The guard of update_job_status as it would be without the call of
\* PublishJobStateMachine.validate_transition: the row is found.
job_is_found(js, job_id, new_status) == job_id \in DOMAIN js

\* update_job_status: the guard of the transaction (row found under FOR
\* UPDATE, edge validated), and the rows after its commit.
validate_transition(js, job_id, new_status) ==
  /\ job_id \in DOMAIN js
  /\ is_valid_transition(js[job_id].status, new_status)

update_job_status(js, job_id, new_status, kw, t) ==
  Put(js, job_id,
      SetFields([js[job_id] EXCEPT !.status = new_status, !.updated_at = t], kw))

\* ------------------------------------------------------- dedupe store
DedupeKey(schedule_id, planned_at) == <<schedule_id, planned_at>>

\* redis SET key "1" NX EX 172800: TRUE when the key was absent.
acquire_dedupe_lock(store, schedule_id, planned_at) ==
  DedupeKey(schedule_id, planned_at) \notin store

\* redis DELETE key.
release_dedupe_lock(store, schedule_id, planned_at) ==
  store \ {DedupeKey(schedule_id, planned_at)}

\* ------------------------------------------------------- queue
Msg(job_id) == [job_id |-> job_id]

\* publish_post.apply_async(kwargs={"job_id": ...}); ok = FALSE when the
\* broker refuses the message and apply_async raises.
apply_async(q, job_id, ok) == IF ok THEN q (+) SetToBag({Msg(job_id)}) ELSE q

\* ------------------------------------------------------- schedule resolver
\* schedule_spec is, for a one-shot, the minute its ISO text denotes, or 0
\* for a text that is not a date; for cron, the period p of the crontab
\* "*/p * * * *" (p = 0 is a crontab croniter rejects); for rrule, the rule
\* "FREQ=MINUTELY;INTERVAL=i;COUNT=c" as [interval, count] with the names of
\* its components and the length of its text.

\* dateutil_parser.parse(schedule_spec): the instant, or RAISES.
parse_iso(spec) == IF spec >= 1 THEN spec ELSE RAISES

\* _resolve_one_shot: the instant, unless it is not after utcnow(); None
\* when the text cannot be parsed.
resolve_one_shot(s, t) ==
  LET planned_time == parse_iso(s.schedule_spec)
  IN IF planned_time = RAISES THEN NULL
     ELSE IF planned_time <= t THEN NULL ELSE planned_time

\* _resolve_cron as it would be if it returned the multiple of p before the
\* reference.
resolve_cron_previous(s, t) ==
  LET ref == IF s.last_run_at # NULL THEN s.last_run_at ELSE t
      p == s.schedule_spec
  IN ((ref \div p) - 1) * p

\* croniter(spec, ref).get_next(): the first multiple of p after the
\* reference, or RAISES for a crontab that is not valid.
croniter_get_next(p, ref) == IF p < 1 THEN RAISES ELSE ((ref \div p) + 1) * p

\* _resolve_cron in UTC: croniter.get_next from last_run_at when set, else
\* from now; None on any exception.
resolve_cron(s, t) ==
  LET ref == IF s.last_run_at # NULL THEN s.last_run_at ELSE t
      next_run == croniter_get_next(s.schedule_spec, ref)
  IN IF next_run = RAISES THEN NULL ELSE next_run

ALLOWED_COMPONENTS ==
  {"FREQ", "INTERVAL", "COUNT", "UNTIL", "BYDAY", "BYMONTHDAY", "BYMONTH",
   "BYYEARDAY", "BYWEEKNO", "BYSETPOS", "BYHOUR", "BYMINUTE", "BYSECOND",
   "DTSTART", "RRULE"}

\* _validate_rrule: the size limit and the whitelist of components.
validate_rrule(rrule_spec) ==
  /\ rrule_spec.length <= MAX_RRULE_LENGTH
  /\ rrule_spec.components \subseteq ALLOWED_COMPONENTS

\* rule.after as it would be with inc=True: an occurrence at the reference
\* itself is returned.
rrule_after_inclusive(rrule_spec, dtstart, after_time) ==
  LET occurrences == {dtstart + k * rrule_spec.interval :
                        k \in 0..(rrule_spec.count - 1)}
      later == {o \in occurrences : o >= after_time}
  IN IF later = {} THEN NULL
     ELSE CHOOSE o \in later : \A x \in later : o <= x

\* rule.after(after_time, inc=False): the first occurrence of the rule
\* after the reference, None when the rule is exhausted.
rrule_after(rrule_spec, dtstart, after_time) ==
  LET occurrences == {dtstart + k * rrule_spec.interval :
                        k \in 0..(rrule_spec.count - 1)}
      later == {o \in occurrences : o > after_time}
  IN IF later = {} THEN NULL
     ELSE CHOOSE o \in later : \A x \in later : o <= x

\* _resolve_rrule in UTC with DTSTART = created_at: None for a rule that
\* does not validate, else the occurrence after last_run_at when set, else
\* after now.
resolve_rrule(s, t) ==
  IF ~validate_rrule(s.schedule_spec) THEN NULL
  ELSE LET after_time == IF s.last_run_at # NULL THEN s.last_run_at ELSE t
       IN rrule_after(s.schedule_spec, s.created_at, after_time)

\* hashlib.md5(schedule_spec.encode()).hexdigest(): a digest of the text.
md5(rrule_spec) ==
  (rrule_spec.interval * 7919 + rrule_spec.count * 31
     + Cardinality(rrule_spec.components) * 131 + rrule_spec.length) % 65536

\* An entry of _rrule_cache: the key (schedule.id, rrule_hash), and the
\* DTSTART the cached rule was compiled with.
CacheEntry(schedule_id, rrule_spec, dtstart) ==
  [key |-> <<schedule_id, md5(rrule_spec)>>, dtstart |-> dtstart]

\* The cache as it would be if the newest entry were removed instead.
popitem_newest(cache) == SubSeq(cache, 1, Len(cache) - 1)

\* _rrule_cache.popitem(last=False): the first entry in order is removed.
popitem(cache) == Tail(cache)

\* _rrule_cache.move_to_end(key) after _rrule_cache[key] = entry: the entry
\* of that key stands last.
move_to_end(cache, entry) ==
  LET others(e) == e.key # entry.key
  IN Append(SelectSeq(cache, others), entry)

\* The cache after _resolve_rrule for the row s of the schedule
\* schedule_id: untouched when the rule does not validate; on a hit the
\* entry is moved to the end, recompiled first when DTSTART differs; on a
\* miss the compiled rule is added, and the oldest entry is removed when
\* the cache holds more than MAX_CACHE_SIZE entries.
rrule_cache_after(cache, schedule_id, s) ==
  IF s.kind # "rrule" THEN cache
  ELSE IF ~validate_rrule(s.schedule_spec) THEN cache
  ELSE LET entry == CacheEntry(schedule_id, s.schedule_spec, s.created_at)
           hits == {i \in 1..Len(cache) : cache[i].key = entry.key}
       IN IF hits # {}
          THEN LET cached == cache[CHOOSE i \in hits : TRUE]
               IN IF cached.dtstart = entry.dtstart
                  THEN move_to_end(cache, cached)
                  ELSE move_to_end(cache, entry)
          ELSE LET added == Append(cache, entry)
               IN IF Len(added) > MAX_CACHE_SIZE THEN popitem(added) ELSE added

\* The cache after the resolver has been called for the schedules sids, in
\* the order of their ids.
RECURSIVE rrule_cache_after_all(_, _, _)
rrule_cache_after_all(cache, rows, sids) ==
  IF sids = {} THEN cache
  ELSE LET sid == CHOOSE x \in sids : \A y \in sids : x <= y
       IN rrule_cache_after_all(rrule_cache_after(cache, sid, rows[sid]),
                                rows, sids \ {sid})

\* resolve_schedule: None for an unknown kind and on any exception.
resolve_schedule(s, t) ==
  LET next_run_at == CASE s.kind = "one_shot" -> resolve_one_shot(s, t)
                       [] s.kind = "cron" -> resolve_cron(s, t)
                       [] s.kind = "rrule" -> resolve_rrule(s, t)
                       [] OTHER -> NULL
  IN IF next_run_at = RAISES THEN NULL ELSE next_run_at

\* ------------------------------------------------------- variant selector
\* sorted(pool, key=id) as a sequence.
RECURSIVE SortedSeq(_)
SortedSeq(S) ==
  IF S = {} THEN <<>>
  ELSE LET m == CHOOSE x \in S : \A y \in S : x <= y
       IN <<m>> \o SortedSeq(S \ {m})

\* A datetime: the wall-clock minute, the microsecond, and the offset of
\* its tzinfo from UTC in minutes (NULL for a naive datetime).
Datetime(wall, microsecond, utcoffset) ==
  [wall |-> wall, microsecond |-> microsecond, utcoffset |-> utcoffset]

\* The value of a DateTime column: naive UTC, whole seconds.
Naive(minute) == Datetime(minute, 0, NULL)

\* The UTC minute of a datetime; a naive one is taken as UTC.
utc_minute(dt) ==
  IF dt.utcoffset = NULL THEN dt.wall ELSE dt.wall - dt.utcoffset

\* The normalisation as it would be without replace(microsecond=0).
normalize_keeping_microsecond(planned_at) ==
  Datetime(utc_minute(planned_at), planned_at.microsecond, 0)

\* select_variant's normalisation of planned_at: pytz.UTC.localize for a
\* naive datetime, astimezone(UTC) otherwise, then replace(microsecond=0).
normalize_planned_at(planned_at) == Datetime(utc_minute(planned_at), 0, 0)

\* _generate_seed: the digest of "{schedule_id}:{planned_at.isoformat()}",
\* folded to 16 bits; the ISO text spells out the wall clock, the
\* microsecond when it is not 0, and the offset of an aware datetime.
generate_seed(schedule_id, planned_at) ==
  (schedule_id * 10007 + planned_at.wall * 7919 + planned_at.microsecond * 31
   + (IF planned_at.utcoffset = NULL THEN 7 ELSE planned_at.utcoffset * 131)
   + 12345) % 65536

\* The variant ids of the last n rows (order_by selected_at desc, limit n;
\* history is kept in the order of selected_at).
RECURSIVE LastRows(_, _)
LastRows(rows, n) ==
  IF n <= 0 \/ rows = <<>> THEN {}
  ELSE {rows[Len(rows)].variant_id} \cup LastRows(SubSeq(rows, 1, Len(rows) - 1), n - 1)

\* The rows _apply_no_repeat_window looks at: those of the schedule (scope
\* 'schedule') or of the template (any other scope) with
\* selected_at <= planned_at.
window_rows(s, schedule_id, planned_at, hist) ==
  SelectSeq(hist, LAMBDA r :
    /\ IF s.no_repeat_scope = "schedule" THEN r.schedule_id = schedule_id
       ELSE r.template_id = s.template_id
    /\ r.selected_at <= utc_minute(planned_at))

\* The filter as it would be if it were switched off for every schedule.
no_repeat_window_off(pool, s, schedule_id, planned_at, hist) == pool

\* _apply_no_repeat_window: the variants of the last no_repeat_window rows
\* are removed from the pool.
apply_no_repeat_window(pool, s, schedule_id, planned_at, hist) ==
  IF s.no_repeat_window <= 0 THEN pool
  ELSE pool \ LastRows(window_rows(s, schedule_id, planned_at, hist),
                       s.no_repeat_window)

\* _select_by_policy: the position chosen in the pool sorted by id.
select_by_policy(pool, s, seed) ==
  LET n == Cardinality(pool)
  IN IF s.selection_policy = "ROUND_ROBIN"
     THEN LET last_pos == IF s.last_variant_pos # NULL THEN s.last_variant_pos ELSE 0 - 1
          IN (last_pos + 1) % n
     ELSE seed % n

\* select_variant as it would be without the fall-back to the full pool: no
\* variant when the filter leaves none.
select_variant_no_fallback(s, schedule_id, planned_at, hist) ==
  LET variants == {v \in VariantIds : variant_active[v]}
      seed == generate_seed(schedule_id, normalize_planned_at(planned_at))
      pool == apply_no_repeat_window(variants, s, schedule_id, planned_at, hist)
      pos == select_by_policy(pool, s, seed)
  IN IF pool = {}
     THEN [variant |-> NULL, seed |-> 0, pos |-> NULL]
     ELSE [variant |-> SortedSeq(pool)[pos + 1], seed |-> seed,
           pos |-> IF s.selection_policy = "ROUND_ROBIN" THEN pos ELSE NULL]

\* select_variant: [variant, seed, pos]; variant = NULL when the template has
\* no active variant; pos is the round-robin cursor to store, NULL otherwise.
select_variant(s, schedule_id, planned_at, hist) ==
  LET variants == {v \in VariantIds : variant_active[v]}
      seed == generate_seed(schedule_id, normalize_planned_at(planned_at))
      filtered == apply_no_repeat_window(variants, s, schedule_id, planned_at, hist)
      pool == IF filtered = {} THEN variants ELSE filtered
      pos == select_by_policy(pool, s, seed)
  IN IF variants = {}
     THEN [variant |-> NULL, seed |-> 0, pos |-> NULL]
     ELSE [variant |-> SortedSeq(pool)[pos + 1], seed |-> seed,
           pos |-> IF s.selection_policy = "ROUND_ROBIN" THEN pos ELSE NULL]

\* The history row as it would be if it were written before the flush that
\* assigns the job its id.
HistoryRowBeforeFlush(template_id, variant_id, schedule_id, job_id, planned_at, t) ==
  [template_id |-> template_id, variant_id |-> variant_id,
   schedule_id |-> schedule_id, job_id |-> NULL, planned_at |-> planned_at,
   selected_at |-> t]

\* record_selection: the VariantSelectionHistory row, selected_at from the
\* clock.
HistoryRow(template_id, variant_id, schedule_id, job_id, planned_at, t) ==
  [template_id |-> template_id, variant_id |-> variant_id,
   schedule_id |-> schedule_id, job_id |-> job_id, planned_at |-> planned_at,
   selected_at |-> t]

\* ------------------------------------------------------------ initial state
NoRows == <<>>

IdleTick ==
  [pc |-> "idle", due |-> {}, claimed |-> NoRows, sched |-> NoRows,
   jobs |-> NoRows, hist |-> <<>>, created |-> {}]

IdleWorker ==
  [pc |-> "idle", job_id |-> NULL, attempt |-> 0,
   post_id |-> NULL, variant_id |-> NULL, x_post_id |-> NULL,
   existing |-> FALSE]

IdleSweeper == [pc |-> "idle", orphaned |-> {}, planned |-> {}, job_id |-> NULL]

IdleDelete == [pc |-> "idle", post_id |-> NULL, cancellable |-> {}, open |-> {}]

IdleInstant == [pc |-> "idle", post_id |-> NULL, schedule_id |-> NULL, job_id |-> NULL]

\* No preview has been answered.
NoResponse ==
  [schedule_id |-> NULL, variant_id |-> NULL, selection_seed |-> NULL,
   planned_at |-> Naive(NULL)]

\* Schedules the operator has created before minute 1: a schedule of post 1
\* (one-shot) and a schedule of template 1 (every minute), each resolved to
\* its first fire at minute 1.
PostOneShot == ScheduleRow(1, NULL, "one_shot", 1, 1, "RANDOM_UNIFORM")
TemplateUniform == ScheduleRow(NULL, 1, "cron", 1, 1, "RANDOM_UNIFORM")
TemplateRoundRobin == ScheduleRow(NULL, 1, "cron", 1, 1, "ROUND_ROBIN")

AllActive == [v \in VariantIds |-> TRUE]
NoneActive == [v \in VariantIds |-> FALSE]

\* <<schedules, variant_active, dry_run>> of the deployments explored.
Deployments ==
  {<<<<TemplateRoundRobin>>, AllActive, FALSE>>,
   <<<<PostOneShot, TemplateUniform>>, NoneActive, TRUE>>,
   <<<<PostOneShot, TemplateUniform>>, AllActive, TRUE>>}

Init ==
  /\ now = 1
  /\ \E d \in Deployments :
       /\ schedules = d[1]
       /\ variant_active = d[2]
       /\ dry_run = d[3]
  /\ post_deleted = [p \in PostIds |-> FALSE]
  /\ jobs = NoRows
  /\ job_seq = 0
  /\ history = <<>>
  /\ published = <<>>
  /\ ext_seq = 0
  /\ posted = [j \in JobIds |-> {}]
  /\ queue = EmptyBag
  /\ sent = 0
  /\ runs = 0
  /\ dedupe = {}
  /\ tick = [t \in Ticks |-> IdleTick]
  /\ wk = [w \in Workers |-> IdleWorker]
  /\ returned = {}
  /\ sw = IdleSweeper
  /\ del = IdleDelete
  /\ ip = IdleInstant
  /\ response = NoResponse
  /\ rrule_cache = <<>>

\* Task runs and API requests that have started and not returned.
InFlight ==
  Cardinality({t \in Ticks : tick[t].pc # "idle"})
  + Cardinality({w \in Workers : wk[w].pc # "idle"})
  + (IF sw.pc # "idle" THEN 1 ELSE 0)
  + (IF del.pc # "idle" THEN 1 ELSE 0)
  + (IF ip.pc # "idle" THEN 1 ELSE 0)

\* A task run or an API request may start.
CanStart == InFlight < MaxInFlight /\ runs < MaxRuns

\* Replicas are interchangeable: a new run takes the first idle one.
FirstIdleTick(t) ==
  tick[t].pc = "idle" /\ \A u \in Ticks : u < t => tick[u].pc # "idle"

FirstIdleWorker(w) ==
  wk[w].pc = "idle" /\ \A u \in Workers : u < w => wk[u].pc # "idle"

\* ------------------------------------------------------------ scheduler_tick
\* Rows of schedules another replica holds FOR UPDATE.
LockedByOthers(t) == UNION {DOMAIN tick[u].sched : u \in Ticks \ {t}}

\* The query of scheduler_tick: enabled rows with next_run_at <= now, FOR
\* UPDATE SKIP LOCKED (NULL <= now is not true in SQL).
due_schedules(t) ==
  {sid \in DOMAIN schedules :
     /\ schedules[sid].enabled
     /\ schedules[sid].next_run_at # NULL
     /\ schedules[sid].next_run_at <= now
     /\ sid \notin LockedByOthers(t)}

\* The query locks and returns the due rows no other replica holds.
TickStart(t) ==
  /\ FirstIdleTick(t)
  /\ CanStart
  /\ runs' = runs + 1
  /\ due_schedules(t) # {}
  /\ tick' = [tick EXCEPT ![t] =
       [IdleTick EXCEPT !.pc = "loop", !.due = due_schedules(t),
          !.claimed = [sid \in due_schedules(t) |-> schedules[sid].next_run_at],
          !.sched = [sid \in due_schedules(t) |-> schedules[sid]]]]
  /\ UNCHANGED <<now, dry_run, post_deleted, variant_active, schedules, jobs,
               job_seq, history, published, ext_seq, posted, queue, sent,
               dedupe, wk, returned, sw, del, ip, response, rrule_cache>>

\* The schedule row as it would be if the tick left it out of the
\* transaction of the fire.
ScheduleLeftAsIs(s, planned_at, pos, t) == s

\* The schedule row after the tick has fired it at planned_at: last_run_at
\* first, then next_run_at from the resolver, or enabled = False on none.
AdvanceSchedule(s, planned_at, pos, t) ==
  LET fired == [s EXCEPT !.last_run_at = planned_at,
                         !.last_variant_pos = IF pos # NULL THEN pos ELSE @]
      next_run_at == resolve_schedule(fired, t)
  IN IF next_run_at # NULL
     THEN [fired EXCEPT !.next_run_at = next_run_at]
     ELSE [fired EXCEPT !.enabled = FALSE]

\* The read of enqueue_publish_job as it would be if the helper also
\* refreshed a job it reads as enqueued.
enqueue_sees_planned_or_enqueued(job_id) ==
  job_id \in DOMAIN jobs /\ jobs[job_id].status \in {PLANNED, ENQUEUED}

\* enqueue_publish_job reads the job in a session of its own, so it sees the
\* committed rows only; it moves the job to enqueued when it reads planned.
enqueue_sees_planned(job_id) ==
  job_id \in DOMAIN jobs /\ jobs[job_id].status = PLANNED

EnqueuedFields(t) == [status |-> ENQUEUED, enqueued_at |-> t, updated_at |-> t]

\* The broker accepts the message: it is reachable and has room.
Accepted(ok) == ok /\ sent < MaxMsgs

\* The call of apply_async for the job, and its outcome.
Send(job_id, ok) ==
  /\ queue' = apply_async(queue, job_id, Accepted(ok))
  /\ sent' = IF Accepted(ok) THEN sent + 1 ELSE sent

\* One pass of the loop body of scheduler_tick, for the claimed schedule sid.
TickSchedule(t, sid) ==
  /\ tick[t].pc = "loop"
  /\ sid \in tick[t].due
  /\ LET s == tick[t].sched[sid]
         planned_at == s.next_run_at
         sel == IF s.template_id # NULL
                THEN select_variant(s, sid, Naive(planned_at), history)
                ELSE [variant |-> NULL, seed |-> NULL, pos |-> NULL]
         id == job_seq + 1
         job == JobRow(sid, planned_at, sel.variant, now)
         rest == [tick[t] EXCEPT !.due = @ \ {sid}]
         \* the fire gets its job, and the schedule is resolved again
         fires == /\ acquire_dedupe_lock(dedupe, sid, planned_at)
                  /\ ~(s.template_id # NULL /\ sel.variant = NULL)
                  /\ ~unique_schedule_planned_at(jobs, sid, planned_at)
                  /\ ~unique_schedule_planned_at(tick[t].jobs, sid, planned_at)
     IN /\ rrule_cache' = IF fires THEN rrule_cache_after(rrule_cache, sid, s)
                          ELSE rrule_cache
        /\ IF ~acquire_dedupe_lock(dedupe, sid, planned_at)
           THEN \* dedupe lock already exists: continue
                /\ tick' = [tick EXCEPT ![t] = rest]
                /\ UNCHANGED <<dedupe, job_seq, queue, sent, jobs>>
           ELSE IF s.template_id # NULL /\ sel.variant = NULL
           THEN \* no active variants: continue, the lock stays
                /\ dedupe' = dedupe \cup {DedupeKey(sid, planned_at)}
                /\ tick' = [tick EXCEPT ![t] = rest]
                /\ UNCHANGED <<job_seq, queue, sent, jobs>>
           ELSE /\ dedupe' = dedupe \cup {DedupeKey(sid, planned_at)}
                /\ job_seq' = id
                /\ IF \/ unique_schedule_planned_at(jobs, sid, planned_at)
                      \/ unique_schedule_planned_at(tick[t].jobs, sid, planned_at)
                   THEN \* db.flush() raises IntegrityError: the transaction is
                        \* rolled back and the session refuses further work,
                        \* so nothing the tick has done so far is committed
                        /\ tick' = [tick EXCEPT ![t] = IdleTick]
                        /\ UNCHANGED <<queue, sent, jobs>>
                   ELSE \E ok \in BOOLEAN :
                        /\ job_seq < MaxJobs
                        /\ Send(id, ok)
                        /\ jobs' = IF Accepted(ok) /\ enqueue_sees_planned(id)
                                   THEN Put(jobs, id, SetFields(jobs[id], EnqueuedFields(now)))
                                   ELSE jobs
                        /\ tick' = [tick EXCEPT ![t] =
                             [rest EXCEPT
                                !.jobs = Put(@, id, job),
                                !.hist = IF sel.variant # NULL
                                         THEN Append(@, HistoryRow(s.template_id,
                                                sel.variant, sid, id, planned_at, now))
                                         ELSE @,
                                !.created = @ \cup {<<sid, planned_at>>},
                                !.sched = Put(@, sid,
                                              AdvanceSchedule(s, planned_at, sel.pos, now))]]
  /\ UNCHANGED <<now, dry_run, post_deleted, variant_active, schedules,
               history, published, ext_seq, posted, wk, returned, sw, del,
               ip, response, runs>>

\* db.commit() at the end of the tick: every pending row becomes visible and
\* the row locks are released.
TickCommit(t) ==
  /\ tick[t].pc = "loop"
  /\ tick[t].due = {}
  /\ schedules' = [sid \in DOMAIN schedules |->
                     IF sid \in DOMAIN tick[t].sched THEN tick[t].sched[sid]
                     ELSE schedules[sid]]
  /\ jobs' = [j \in DOMAIN jobs \cup DOMAIN tick[t].jobs |->
                IF j \in DOMAIN tick[t].jobs THEN tick[t].jobs[j] ELSE jobs[j]]
  /\ history' = history \o tick[t].hist
  /\ tick' = [tick EXCEPT ![t] = IdleTick]
  /\ UNCHANGED <<now, dry_run, post_deleted, variant_active, job_seq,
               published, ext_seq, posted, queue, sent, dedupe, wk, returned,
               sw, del, ip, response, rrule_cache, runs>>

\* The tick process dies, or loses its database connection, before the
\* commit: the transaction is rolled back.
TickCrash(t) ==
  /\ tick[t].pc = "loop"
  /\ tick' = [tick EXCEPT ![t] = IdleTick]
  /\ UNCHANGED <<now, dry_run, post_deleted, variant_active, schedules, jobs,
               job_seq, history, published, ext_seq, posted, queue, sent,
               dedupe, wk, returned, sw, del, ip, response, rrule_cache, runs>>

\* ------------------------------------------------------------ publish_post
\* is_job_terminal: FALSE for a job that is not found.
is_job_terminal(job_id) ==
  job_id \in DOMAIN jobs /\ is_terminal_state(jobs[job_id].status)

\* The finally block of publish_post: the dedupe lock of the job is deleted
\* when the job row is found.
ReleaseJobLock(store, job_id) ==
  IF job_id \in DOMAIN jobs
  THEN release_dedupe_lock(store, jobs[job_id].schedule_id, jobs[job_id].planned_at)
  ELSE store

\* The worker after the entry of publish_post for the message m: the early
\* exit on a terminal job, else the first read of the job (attempt is
\* copied), which ends the task when the job is not found.
EnterTask(m) ==
  IF is_job_terminal(m.job_id) \/ m.job_id \notin DOMAIN jobs
  THEN IdleWorker
  ELSE [IdleWorker EXCEPT !.pc = "to_running", !.job_id = m.job_id,
                          !.attempt = jobs[m.job_id].attempt]

\* The jobs for which publish_post returns {"status": "already_completed"}
\* at its entry, when it returns that.
EntryResult(m) == IF is_job_terminal(m.job_id) THEN {m.job_id} ELSE {}

\* The broker hands a publish.post message to a free worker, which runs
\* publish_post up to the transition to running.
Deliver(w) ==
  /\ FirstIdleWorker(w)
  /\ CanStart
  /\ runs' = runs + 1
  /\ \E m \in BagToSet(queue) :
       /\ queue' = queue (-) SetToBag({m})
       /\ wk' = [wk EXCEPT ![w] = EnterTask(m)]
       /\ returned' = returned \cup EntryResult(m)
  /\ UNCHANGED <<now, dry_run, post_deleted, variant_active, schedules, jobs,
               job_seq, history, published, ext_seq, posted, sent, dedupe,
               tick, sw, del, ip, response, rrule_cache>>

\* update_job_status(job_id, "running", started_at=now, attempt=attempt + 1).
WorkerToRunning(w) ==
  /\ wk[w].pc = "to_running"
  /\ IF validate_transition(jobs, wk[w].job_id, RUNNING)
     THEN /\ jobs' = update_job_status(jobs, wk[w].job_id, RUNNING,
                       [started_at |-> now, attempt |-> wk[w].attempt + 1], now)
          /\ wk' = [wk EXCEPT ![w].pc = "load"]
     ELSE /\ wk' = [wk EXCEPT ![w].pc = "except"]
          /\ UNCHANGED jobs
  /\ UNCHANGED <<now, dry_run, post_deleted, variant_active, schedules,
               job_seq, history, published, ext_seq, posted, queue, sent,
               dedupe, tick, returned, sw, del, ip, response, rrule_cache,
               runs>>

\* The content of the job: its variant, else the post of its schedule, which
\* must not be deleted.
WorkerLoadContent(w) ==
  /\ wk[w].pc = "load"
  /\ LET job == jobs[wk[w].job_id]
         schedule == schedules[job.schedule_id]
     IN wk' = [wk EXCEPT ![w] =
          IF job.variant_id # NULL
          THEN [@ EXCEPT !.pc = "publish", !.variant_id = job.variant_id]
          ELSE IF schedule.post_id # NULL /\ ~post_deleted[schedule.post_id]
          THEN [@ EXCEPT !.pc = "publish", !.post_id = schedule.post_id]
          ELSE [@ EXCEPT !.pc = "except"]]
  /\ UNCHANGED <<now, dry_run, post_deleted, variant_active, schedules, jobs,
               job_seq, history, published, ext_seq, posted, queue, sent,
               dedupe, tick, returned, sw, del, ip, response, rrule_cache,
               runs>>

\* UNIQUE x_post_id on published_posts: TRUE when a row carries the id.
x_post_id_exists(rows, x_post_id) ==
  \E i \in 1..Len(rows) : rows[i].x_post_id = x_post_id

\* The worker once the publisher has returned x_post_id: the query for a
\* PublishedPost with that id follows at once.
Published(r, x_post_id) ==
  [r EXCEPT !.pc = "record", !.x_post_id = x_post_id,
            !.existing = x_post_id_exists(published, x_post_id)]

\* create_twitter_post: in dry-run mode the fixed id and no I/O; otherwise the
\* endpoint accepts the post under a fresh id, or the call raises.
WorkerPublish(w) ==
  /\ wk[w].pc = "publish"
  /\ IF dry_run
     THEN /\ wk' = [wk EXCEPT ![w] = Published(@, DRY_RUN_ID)]
          /\ UNCHANGED <<ext_seq, posted>>
     ELSE \/ /\ ext_seq' = ext_seq + 1
             /\ posted' = [posted EXCEPT ![wk[w].job_id] = @ \cup {ext_seq + 1}]
             /\ wk' = [wk EXCEPT ![w] = Published(@, ext_seq + 1)]
          \/ /\ wk' = [wk EXCEPT ![w].pc = "except"]
             /\ UNCHANGED <<ext_seq, posted>>
  /\ UNCHANGED <<now, dry_run, post_deleted, variant_active, schedules, jobs,
               job_seq, history, published, queue, sent, dedupe, tick,
               returned, sw, del, ip, response, rrule_cache, runs>>

PublishedRow(post_id, variant_id, x_post_id, t) ==
  [post_id |-> post_id, variant_id |-> variant_id, x_post_id |-> x_post_id,
   published_at |-> t]

\* db.add(published_post) unless one was found, then db.commit(); the commit
\* raises IntegrityError when the id has been inserted meanwhile.
WorkerRecordPublished(w) ==
  /\ wk[w].pc = "record"
  /\ IF wk[w].existing
     THEN /\ wk' = [wk EXCEPT ![w].pc = "to_succeeded"]
          /\ UNCHANGED published
     ELSE IF x_post_id_exists(published, wk[w].x_post_id)
     THEN /\ wk' = [wk EXCEPT ![w].pc = "except"]
          /\ UNCHANGED published
     ELSE /\ published' = Append(published,
                 PublishedRow(wk[w].post_id, wk[w].variant_id, wk[w].x_post_id, now))
          /\ wk' = [wk EXCEPT ![w].pc = "to_succeeded"]
  /\ UNCHANGED <<now, dry_run, post_deleted, variant_active, schedules, jobs,
               job_seq, history, ext_seq, posted, queue, sent, dedupe, tick,
               returned, sw, del, ip, response, rrule_cache, runs>>

\* update_job_status(job_id, "succeeded", finished_at=now), then the finally
\* block and the return.
WorkerToSucceeded(w) ==
  /\ wk[w].pc = "to_succeeded"
  /\ IF validate_transition(jobs, wk[w].job_id, SUCCEEDED)
     THEN /\ jobs' = update_job_status(jobs, wk[w].job_id, SUCCEEDED,
                       [finished_at |-> now], now)
          /\ dedupe' = ReleaseJobLock(dedupe, wk[w].job_id)
          /\ wk' = [wk EXCEPT ![w] = IdleWorker]
     ELSE /\ wk' = [wk EXCEPT ![w].pc = "except"]
          /\ UNCHANGED <<jobs, dedupe>>
  /\ UNCHANGED <<now, dry_run, post_deleted, variant_active, schedules,
               job_seq, history, published, ext_seq, posted, queue, sent,
               tick, returned, sw, del, ip, response, rrule_cache, runs>>

\* The except block: a job read as running is moved to failed and any other
\* status is left; the exception is raised again (the task has no
\* autoretry_for and never calls self.retry, so the message is acknowledged
\* and not delivered again); then the finally block.
WorkerExcept(w) ==
  /\ wk[w].pc = "except"
  /\ jobs' = IF validate_transition(jobs, wk[w].job_id, FAILED)
             THEN update_job_status(jobs, wk[w].job_id, FAILED,
                    [error |-> TRUE, finished_at |-> now], now)
             ELSE jobs
  /\ dedupe' = ReleaseJobLock(dedupe, wk[w].job_id)
  /\ wk' = [wk EXCEPT ![w] = IdleWorker]
  /\ UNCHANGED <<now, dry_run, post_deleted, variant_active, schedules,
               job_seq, history, published, ext_seq, posted, queue, sent,
               tick, returned, sw, del, ip, response, rrule_cache, runs>>

\* ------------------------------------------------------------ recovery sweeper
\* find_orphaned_enqueued_jobs(timeout_minutes, re_enqueue_cooldown_minutes).
find_orphaned_enqueued_jobs ==
  {j \in DOMAIN jobs :
     /\ jobs[j].status = ENQUEUED
     /\ jobs[j].enqueued_at # NULL
     /\ jobs[j].enqueued_at < now - TIMEOUT_MINUTES
     /\ jobs[j].enqueued_at < now - COOLDOWN_MINUTES
     /\ jobs[j].started_at = NULL
     /\ jobs[j].updated_at < now - COOLDOWN_MINUTES}

\* The sweeper as it was before it looked for due planned jobs.
find_no_planned_jobs == {}

\* find_due_planned_jobs.
find_due_planned_jobs ==
  {j \in DOMAIN jobs : jobs[j].status = PLANNED /\ jobs[j].planned_at <= now}

\* The sweeper between two jobs: it returns when both lists are done.
SweeperNext(r) ==
  IF r.orphaned = {} /\ r.planned = {} THEN IdleSweeper
  ELSE [r EXCEPT !.pc = "run", !.job_id = NULL]

\* cleanup_orphaned_jobs: the two queries.
SweepFind ==
  /\ sw.pc = "idle"
  /\ CanStart
  /\ runs' = runs + 1
  /\ find_orphaned_enqueued_jobs \cup find_due_planned_jobs # {}
  /\ sw' = [pc |-> "run", orphaned |-> find_orphaned_enqueued_jobs,
            planned |-> find_due_planned_jobs, job_id |-> NULL]
  /\ UNCHANGED <<now, dry_run, post_deleted, variant_active, schedules, jobs,
               job_seq, history, published, ext_seq, posted, queue, sent,
               dedupe, tick, wk, returned, del, ip, response, rrule_cache>>

\* The double check of re_enqueue_orphaned_job, made under the cleanup lock.
still_orphaned(job_id) ==
  /\ jobs[job_id].status = ENQUEUED
  /\ jobs[job_id].started_at = NULL
  /\ ~(jobs[job_id].enqueued_at # NULL
       /\ jobs[job_id].enqueued_at > now - COOLDOWN_MINUTES)

\* re_enqueue_orphaned_job: the double check, then enqueue_publish_job(job_id),
\* which leaves a job that is not planned as it is. The cleanup lock is taken
\* before and deleted after; the one sweeper run always gets it.
SweepOrphan(j) ==
  /\ sw.pc = "run"
  /\ j \in sw.orphaned
  /\ IF still_orphaned(j)
     THEN \E ok \in BOOLEAN :
          /\ Send(j, ok)
          /\ jobs' = IF Accepted(ok) /\ enqueue_sees_planned(j)
                     THEN Put(jobs, j, SetFields(jobs[j], EnqueuedFields(now)))
                     ELSE jobs
     ELSE UNCHANGED <<queue, sent, jobs>>
  /\ sw' = SweeperNext([sw EXCEPT !.orphaned = @ \ {j}])
  /\ UNCHANGED <<now, dry_run, post_deleted, variant_active, schedules,
               job_seq, history, published, ext_seq, posted, dedupe, tick,
               wk, returned, del, ip, response, rrule_cache, runs>>

\* enqueue_planned_job: the status check, then the helper up to its read of
\* the job; the job is marked enqueued in SweepPlannedMark.
SweepPlanned(j) ==
  /\ sw.pc = "run"
  /\ sw.orphaned = {}
  /\ j \in sw.planned
  /\ IF jobs[j].status # PLANNED
     THEN /\ sw' = SweeperNext([sw EXCEPT !.planned = @ \ {j}])
          /\ UNCHANGED <<queue, sent>>
     ELSE \E ok \in BOOLEAN :
          /\ Send(j, ok)
          /\ sw' = IF Accepted(ok)
                   THEN [sw EXCEPT !.pc = "mark", !.job_id = j]
                   ELSE SweeperNext([sw EXCEPT !.planned = @ \ {j}])
  /\ UNCHANGED <<now, dry_run, post_deleted, variant_active, schedules, jobs,
               job_seq, history, published, ext_seq, posted, dedupe, tick,
               wk, returned, del, ip, response, rrule_cache, runs>>

\* The UPDATE of enqueue_publish_job: status, enqueued_at and updated_at of
\* the row that was read as planned, written without a row lock.
SweepPlannedMark ==
  /\ sw.pc = "mark"
  /\ jobs' = Put(jobs, sw.job_id, SetFields(jobs[sw.job_id], EnqueuedFields(now)))
  /\ sw' = SweeperNext([sw EXCEPT !.planned = @ \ {sw.job_id}])
  /\ UNCHANGED <<now, dry_run, post_deleted, variant_active, schedules,
               job_seq, history, published, ext_seq, posted, queue, sent,
               dedupe, tick, wk, returned, del, ip, response, rrule_cache,
               runs>>

\* ------------------------------------------------------------ cancel / retry
\* The two outcomes of a call of cancel_job or retry_job: the ValueError, or
\* the job row it returns.
Raised == [raised |-> TRUE]
Returned(r) == [raised |-> FALSE, job |-> r]

\* The row cancel_job leaves.
CancelledRow(r, t) ==
  [r EXCEPT !.status = CANCELLED, !.error = TRUE, !.finished_at = t,
            !.updated_at = t]

\* cancel_job(job_id, reason): for a job it can cancel it writes the
\* cancelled row and returns it; on any other job it raises, and get_db
\* rolls back, so nothing is written.
cancel_job(j) ==
  /\ j \in DOMAIN jobs
  /\ IF is_valid_transition(jobs[j].status, CANCELLED)
     THEN /\ jobs' = Put(jobs, j, CancelledRow(jobs[j], now))
          /\ response' = Returned(CancelledRow(jobs[j], now))
     ELSE /\ jobs' = jobs
          /\ response' = Raised
  /\ UNCHANGED <<now, dry_run, post_deleted, variant_active, schedules,
               job_seq, history, published, ext_seq, posted, queue, sent,
               dedupe, tick, wk, returned, sw, del, ip, rrule_cache, runs>>

\* The row as it would be if a retry kept the previous error.
RetriedRowKeepingError(r, max_attempts, t) ==
  IF r.attempt >= max_attempts
  THEN [r EXCEPT !.status = DEAD_LETTER, !.error = TRUE, !.finished_at = t,
                 !.updated_at = t]
  ELSE [r EXCEPT !.status = RUNNING, !.started_at = t, !.finished_at = NULL,
                 !.updated_at = t]

\* The row retry_job leaves for a failed job.
RetriedRow(r, max_attempts, t) ==
  IF r.attempt >= max_attempts
  THEN [r EXCEPT !.status = DEAD_LETTER, !.error = TRUE, !.finished_at = t,
                 !.updated_at = t]
  ELSE [r EXCEPT !.status = RUNNING, !.started_at = t, !.finished_at = NULL,
                 !.error = FALSE, !.updated_at = t]

\* retry_job(job_id, max_attempts): for a failed job it writes the row
\* above and returns it; on any other job it raises, and get_db rolls back,
\* so nothing is written.
retry_job(j, max_attempts) ==
  /\ j \in DOMAIN jobs
  /\ IF jobs[j].status = FAILED
     THEN /\ jobs' = Put(jobs, j, RetriedRow(jobs[j], max_attempts, now))
          /\ response' = Returned(RetriedRow(jobs[j], max_attempts, now))
     ELSE /\ jobs' = jobs
          /\ response' = Raised
  /\ UNCHANGED <<now, dry_run, post_deleted, variant_active, schedules,
               job_seq, history, published, ext_seq, posted, queue, sent,
               dedupe, tick, wk, returned, sw, del, ip, rrule_cache, runs>>

\* ------------------------------------------------------------ delete_post
\* The statuses delete_post and instant_publish treat as terminal.
api_terminal_states == {SUCCEEDED, FAILED, CANCELLED, DEAD_LETTER}

\* The jobs delete_post reads as cancellable: those of every schedule of the
\* post whose status is outside its terminal set.
cancellable_jobs(post_id) ==
  {j \in DOMAIN jobs :
     /\ schedules[jobs[j].schedule_id].post_id = post_id
     /\ jobs[j].status \notin api_terminal_states}

\* The jobs of the schedules of the post that are in no terminal state of the
\* state machine (kept for the record; delete_post does not compute it).
open_jobs(post_id) ==
  {j \in DOMAIN jobs :
     /\ schedules[jobs[j].schedule_id].post_id = post_id
     /\ ~is_terminal_state(jobs[j].status)}

\* delete_post up to its commit: the post and the jobs are read. The request
\* is made for a post that is not deleted yet.
DeleteRead(p) ==
  /\ del.pc = "idle"
  /\ CanStart
  /\ runs' = runs + 1
  /\ ~post_deleted[p]
  /\ del' = [pc |-> "commit", post_id |-> p, cancellable |-> cancellable_jobs(p),
             open |-> open_jobs(p)]
  /\ UNCHANGED <<now, dry_run, post_deleted, variant_active, schedules, jobs,
               job_seq, history, published, ext_seq, posted, queue, sent,
               dedupe, tick, wk, returned, sw, ip, response, rrule_cache>>

\* db.commit() of delete_post: the post is marked deleted and every job read
\* as cancellable is written cancelled, without a row lock or validation.
DeleteCommit ==
  /\ del.pc = "commit"
  /\ post_deleted' = [post_deleted EXCEPT ![del.post_id] = TRUE]
  /\ jobs' = [j \in DOMAIN jobs |->
                IF j \in del.cancellable
                THEN [jobs[j] EXCEPT !.status = CANCELLED, !.updated_at = now,
                                     !.finished_at = now]
                ELSE jobs[j]]
  /\ del' = IdleDelete
  /\ UNCHANGED <<now, dry_run, variant_active, schedules, job_seq, history,
               published, ext_seq, posted, queue, sent, dedupe, tick, wk,
               returned, sw, ip, response, rrule_cache, runs>>

\* ------------------------------------------------------------ instant_publish
SchedulesOfPost(p) == {sid \in DOMAIN schedules : schedules[sid].post_id = p}

\* Get or create the schedule of the post; a new one is committed at once.
InstantStart(p) ==
  /\ ip.pc = "idle"
  /\ CanStart
  /\ runs' = runs + 1
  /\ ~post_deleted[p]
  /\ IF SchedulesOfPost(p) # {}
     THEN /\ ip' = [IdleInstant EXCEPT !.pc = "job", !.post_id = p,
                      !.schedule_id = CHOOSE sid \in SchedulesOfPost(p) :
                                        \A o \in SchedulesOfPost(p) : sid <= o]
          /\ UNCHANGED schedules
     ELSE /\ schedules' = Append(schedules,
                 ScheduleRow(p, NULL, "one_shot", now, now, "RANDOM_UNIFORM"))
          /\ ip' = [IdleInstant EXCEPT !.pc = "job", !.post_id = p,
                      !.schedule_id = Len(schedules) + 1]
  /\ UNCHANGED <<now, dry_run, post_deleted, variant_active, jobs, job_seq,
               history, published, ext_seq, posted, queue, sent, dedupe,
               tick, wk, returned, sw, del, response, rrule_cache>>

\* The jobs instant_publish counts as active for the schedule.
active_jobs(schedule_id) ==
  {j \in DOMAIN jobs :
     jobs[j].schedule_id = schedule_id /\ jobs[j].status \notin api_terminal_states}

\* The check for an active job, then the insert and commit of the new job.
\* The INSERT waits while a tick holds an uncommitted row with the same
\* (schedule_id, planned_at), and raises IntegrityError on a committed one.
InstantCreateJob ==
  /\ ip.pc = "job"
  /\ IF active_jobs(ip.schedule_id) # {}
     THEN /\ ip' = IdleInstant
          /\ UNCHANGED <<jobs, job_seq>>
     ELSE /\ job_seq < MaxJobs
          /\ \A t \in Ticks :
               ~unique_schedule_planned_at(tick[t].jobs, ip.schedule_id, now)
          /\ job_seq' = job_seq + 1
          /\ IF unique_schedule_planned_at(jobs, ip.schedule_id, now)
             THEN /\ ip' = IdleInstant
                  /\ UNCHANGED jobs
             ELSE /\ jobs' = Put(jobs, job_seq + 1,
                                 JobRow(ip.schedule_id, now, NULL, now))
                  /\ ip' = [ip EXCEPT !.pc = "enqueue", !.job_id = job_seq + 1]
  /\ UNCHANGED <<now, dry_run, post_deleted, variant_active, schedules,
               history, published, ext_seq, posted, queue, sent, dedupe,
               tick, wk, returned, sw, del, response, rrule_cache, runs>>

\* enqueue_publish_job(job_id) up to its read of the job.
InstantEnqueue ==
  /\ ip.pc = "enqueue"
  /\ \E ok \in BOOLEAN :
       /\ Send(ip.job_id, ok)
       /\ ip' = IF Accepted(ok) /\ enqueue_sees_planned(ip.job_id)
                THEN [ip EXCEPT !.pc = "mark"]
                ELSE IdleInstant
  /\ UNCHANGED <<now, dry_run, post_deleted, variant_active, schedules, jobs,
               job_seq, history, published, ext_seq, posted, dedupe, tick,
               wk, returned, sw, del, response, rrule_cache, runs>>

\* The UPDATE of enqueue_publish_job for the job read as planned.
InstantMark ==
  /\ ip.pc = "mark"
  /\ jobs' = Put(jobs, ip.job_id, SetFields(jobs[ip.job_id], EnqueuedFields(now)))
  /\ ip' = IdleInstant
  /\ UNCHANGED <<now, dry_run, post_deleted, variant_active, schedules,
               job_seq, history, published, ext_seq, posted, queue, sent,
               dedupe, tick, wk, returned, sw, del, response, rrule_cache,
               runs>>

\* ------------------------------------------------------------ the clock
\* Time passes between the task runs and the API requests, while none is
\* under way (a run takes less than the minute it starts in): the clock
\* moves on to a later one of the instants observed.
AdvanceTime(t) ==
  /\ t > now
  /\ InFlight = 0
  /\ now' = t
  /\ UNCHANGED <<dry_run, post_deleted, variant_active, schedules, jobs,
               job_seq, history, published, ext_seq, posted, queue, sent,
               dedupe, tick, wk, returned, sw, del, ip, response,
               rrule_cache, runs>>

Next ==
  \/ \E t \in Ticks : TickStart(t)
  \/ \E t \in Ticks : \E sid \in DOMAIN schedules : TickSchedule(t, sid)
  \/ \E t \in Ticks : TickCommit(t)
  \/ \E t \in Ticks : TickCrash(t)
  \/ \E w \in Workers : Deliver(w)
  \/ \E w \in Workers : WorkerToRunning(w)
  \/ \E w \in Workers : WorkerLoadContent(w)
  \/ \E w \in Workers : WorkerPublish(w)
  \/ \E w \in Workers : WorkerRecordPublished(w)
  \/ \E w \in Workers : WorkerToSucceeded(w)
  \/ \E w \in Workers : WorkerExcept(w)
  \/ SweepFind
  \/ \E j \in JobIds : SweepOrphan(j)
  \/ \E j \in JobIds : SweepPlanned(j)
  \/ SweepPlannedMark
  \/ \E p \in PostIds : DeleteRead(p)
  \/ DeleteCommit
  \/ \E p \in PostIds : InstantStart(p)
  \/ InstantCreateJob
  \/ InstantEnqueue
  \/ InstantMark
  \/ \E t \in Instants : AdvanceTime(t)

Spec == Init /\ [][Next]_vars


\* ------------------------------------------------------------ recovery, at length
\* The recovery of one waiting job by the sweeper and the workers, followed
\* for as long as it takes. The code only ever compares a stored instant with
\* the clock (planned_at <= now, enqueued_at < now - timeout, updated_at <
\* now - cooldown), so the clock is kept at MaxTime and a minute that passes
\* moves every stored instant one minute back; instants at the far end, all
\* older than every threshold, are merged.
MinuteEarlier(ts) == IF ts = NULL \/ ts = 1 THEN ts ELSE ts - 1

JobMinuteEarlier(r) ==
  [r EXCEPT !.planned_at = MinuteEarlier(@), !.enqueued_at = MinuteEarlier(@),
            !.started_at = MinuteEarlier(@), !.finished_at = MinuteEarlier(@),
            !.updated_at = MinuteEarlier(@)]

\* A minute passes while no task run or request is under way. The beat
\* schedule starts at most MaxRuns runs in a minute, and the broker holds at
\* most MaxMsgs messages.
MinutePasses ==
  /\ InFlight = 0
  /\ jobs' = [j \in DOMAIN jobs |-> JobMinuteEarlier(jobs[j])]
  /\ schedules' = [sid \in DOMAIN schedules |->
       [schedules[sid] EXCEPT !.next_run_at = MinuteEarlier(@),
                              !.last_run_at = MinuteEarlier(@),
                              !.schedule_spec = IF schedules[sid].kind = "one_shot"
                                                THEN MinuteEarlier(@) ELSE @]]
  /\ published' = [i \in 1..Len(published) |->
       [published[i] EXCEPT !.published_at = MinuteEarlier(@)]]
  /\ dedupe' = {DedupeKey(k[1], MinuteEarlier(k[2])) : k \in dedupe}
  /\ runs' = 0
  /\ sent' = BagCardinality(queue)
  /\ UNCHANGED <<now, dry_run, post_deleted, variant_active, job_seq, history,
               ext_seq, posted, queue, tick, wk, returned, sw, del, ip,
               response, rrule_cache>>

\* The job of the one-shot fire of post 1, waiting: as the tick committed it
\* (planned), or marked enqueued at the instant enqueued_at.
WaitingJob(status, enqueued_at) ==
  [JobRow(1, 1, NULL, 1) EXCEPT
     !.status = status, !.enqueued_at = enqueued_at,
     !.updated_at = IF enqueued_at # NULL THEN enqueued_at ELSE 1]

WaitingJobs ==
  {WaitingJob(PLANNED, NULL)} \cup {WaitingJob(ENQUEUED, t) : t \in Instants}

\* The one-shot schedule of post 1 has been fired by a tick; its job waits,
\* with its message queued or not (consumed before the commit, or lost).
LiveInit ==
  /\ now = MaxTime
  /\ dry_run \in BOOLEAN
  /\ variant_active = AllActive
  /\ schedules = <<AdvanceSchedule(PostOneShot, 1, NULL, 1)>>
  /\ post_deleted = [p \in PostIds |-> FALSE]
  /\ \E r \in WaitingJobs : jobs = <<r>>
  /\ job_seq = 1
  /\ history = <<>>
  /\ published = <<>>
  /\ ext_seq = 0
  /\ posted = [j \in JobIds |-> {}]
  /\ \E n \in {0, 1} :
       /\ queue = IF n = 1 THEN SetToBag({Msg(1)}) ELSE EmptyBag
       /\ sent = n
  /\ runs = 0
  /\ dedupe = {DedupeKey(1, 1)}
  /\ tick = [t \in Ticks |-> IdleTick]
  /\ wk = [w \in Workers |-> IdleWorker]
  /\ returned = {}
  /\ sw = IdleSweeper
  /\ del = IdleDelete
  /\ ip = IdleInstant
  /\ response = NoResponse
  /\ rrule_cache = <<>>

WorkerStep(w) ==
  \/ WorkerToRunning(w)
  \/ WorkerLoadContent(w)
  \/ WorkerPublish(w)
  \/ WorkerRecordPublished(w)
  \/ WorkerToSucceeded(w)
  \/ WorkerExcept(w)

LiveNext ==
  \/ \E w \in Workers : Deliver(w)
  \/ \E w \in Workers : WorkerStep(w)
  \/ SweepFind
  \/ \E j \in JobIds : SweepOrphan(j)
  \/ \E j \in JobIds : SweepPlanned(j)
  \/ SweepPlannedMark
  \/ \E p \in PostIds : DeleteRead(p)
  \/ DeleteCommit
  \/ MinutePasses

\* The sweeper, the queue and the workers keep running: beat starts the
\* sweeper again and again, a task that has started runs to its end, the
\* broker accepts a message again and again, and a queued message is
\* delivered.
LiveFairness ==
  /\ WF_vars(MinutePasses)
  /\ SF_vars(SweepFind)
  /\ WF_vars(SweepPlannedMark)
  /\ \A j \in JobIds :
       /\ WF_vars(SweepOrphan(j))
       /\ WF_vars(SweepPlanned(j))
       /\ SF_vars(SweepOrphan(j) /\ queue' # queue)
       /\ SF_vars(SweepPlanned(j) /\ queue' # queue)
       /\ SF_vars(\E w \in Workers :
                    Deliver(w) /\ queue' = queue (-) SetToBag({Msg(j)}))
  /\ \A w \in Workers : WF_vars(WorkerStep(w))
  /\ WF_vars(DeleteCommit)

LiveSpec == LiveInit /\ [][LiveNext]_vars /\ LiveFairness

\* ------------------------------------------------- variant selection alone
\* One scheduler replica, the preview endpoint and the variant editor over
\* template schedules, with no worker.

\* The minutes observed: the fires of a schedule on time (1, 2 and 4) and the
\* last minute, when a replica that was down catches up.
SelectInstants == {1, 2, 4, MaxTime}

\* A schedule of template 1 firing every p minutes, created before minute 1
\* and resolved to its first fire at minute p.
TemplateSchedule(p, policy, window, scope) ==
  [ScheduleRow(NULL, 1, "cron", p, p, policy) EXCEPT
     !.no_repeat_window = window, !.no_repeat_scope = scope]

SelectionPolicies == {"RANDOM_UNIFORM", "ROUND_ROBIN"}

\* The variants the editor switches on and off.
EditedVariants == {2}

SelectInit ==
  /\ now = 1
  /\ dry_run = TRUE
  /\ \/ \E p \in {1, 2} : \E policy \in SelectionPolicies : \E window \in {0, 1} :
          schedules = <<TemplateSchedule(p, policy, window, "template")>>
     \/ \E scope \in {"template", "schedule"} :
          schedules = <<TemplateSchedule(2, "RANDOM_UNIFORM", 1, scope),
                        TemplateSchedule(2, "RANDOM_UNIFORM", 0, "template")>>
  /\ variant_active = AllActive
  /\ post_deleted = [p \in PostIds |-> FALSE]
  /\ jobs = NoRows
  /\ job_seq = 0
  /\ history = <<>>
  /\ published = <<>>
  /\ ext_seq = 0
  /\ posted = [j \in JobIds |-> {}]
  /\ queue = EmptyBag
  /\ sent = 0
  /\ runs = 0
  /\ dedupe = {}
  /\ tick = [t \in Ticks |-> IdleTick]
  /\ wk = [w \in Workers |-> IdleWorker]
  /\ returned = {}
  /\ sw = IdleSweeper
  /\ del = IdleDelete
  /\ ip = IdleInstant
  /\ response = NoResponse
  /\ rrule_cache = <<>>

\* Rows of schedules some tick holds FOR UPDATE.
LockedRows == UNION {DOMAIN tick[u].sched : u \in Ticks}

\* The planned_at parameter of a preview that leaves it out.
LeftOut == Naive(NULL)

\* The body of the answer: the variant, the seed and planned_dt.isoformat();
\* no variant and no seed in the 404 for a template without active variants.
PreviewResponse(schedule_id, planned_dt, sel) ==
  [schedule_id |-> schedule_id, variant_id |-> sel.variant,
   selection_seed |-> IF sel.variant # NULL THEN sel.seed ELSE NULL,
   planned_at |-> planned_dt]

\* preview_variant_selection(schedule_id, planned_at): planned_at is parsed
\* (a naive text is taken as UTC) or, when left out, replaced by next_run_at
\* as UTC; the selector runs on the schedule row inside get_db(), which
\* commits on return, so the cursor the selector has set on the row is
\* stored. The request is taken while no tick holds the row.
preview_variant_selection(schedule_id, planned_at) ==
  /\ schedule_id \in DOMAIN schedules
  /\ schedule_id \notin LockedRows
  /\ schedules[schedule_id].template_id # NULL
  /\ LET s == schedules[schedule_id]
         given == IF planned_at # LeftOut THEN planned_at ELSE Naive(s.next_run_at)
         planned_dt == IF given.utcoffset = NULL
                       THEN Datetime(given.wall, given.microsecond, 0)
                       ELSE given
         sel == select_variant(s, schedule_id, planned_dt, history)
     IN /\ given.wall # NULL
        /\ schedules' = [schedules EXCEPT ![schedule_id].last_variant_pos =
                           IF sel.pos # NULL THEN sel.pos ELSE @]
        /\ response' = PreviewResponse(schedule_id, planned_dt, sel)
  /\ UNCHANGED <<now, dry_run, post_deleted, variant_active, jobs, job_seq,
               history, published, ext_seq, posted, queue, sent, dedupe,
               tick, wk, returned, sw, del, ip, rrule_cache, runs>>

\* update_variant(variant_id, active=...): the editor switches a variant on
\* or off.
update_variant(variant_id, active) ==
  /\ variant_active[variant_id] # active
  /\ variant_active' = [variant_active EXCEPT ![variant_id] = active]
  /\ UNCHANGED <<now, dry_run, post_deleted, schedules, jobs, job_seq, history,
               published, ext_seq, posted, queue, sent, dedupe, tick, wk,
               returned, sw, del, ip, response, rrule_cache, runs>>

SelectNext ==
  \/ TickStart(1)
  \/ \E sid \in DOMAIN schedules : TickSchedule(1, sid)
  \/ TickCommit(1)
  \/ TickCrash(1)
  \/ \E sid \in DOMAIN schedules : \E p \in {LeftOut} :
       preview_variant_selection(sid, p)
  \/ \E v \in EditedVariants : \E b \in BOOLEAN : update_variant(v, b)
  \/ \E t \in SelectInstants : AdvanceTime(t)

SelectSpec == SelectInit /\ [][SelectNext]_vars

\* The preview endpoint alone, asked for instants in several spellings:
\* with and without a fraction of a second, naive, in UTC, and in a zone
\* one unit ahead of UTC.
PreviewInstants ==
  {Datetime(wall, microsecond, utcoffset) :
     wall \in {1, 2, 3}, microsecond \in {0, 500000}, utcoffset \in {NULL, 0, 1}}

SeedNext ==
  \/ \E sid \in DOMAIN schedules : \E p \in PreviewInstants \cup {LeftOut} :
       preview_variant_selection(sid, p)
  \/ \E v \in EditedVariants : \E b \in BOOLEAN : update_variant(v, b)

SeedSpec == SelectInit /\ [][SeedNext]_vars

\* The same with the variant editor left out: the active pool of the
\* template is the same at every fire.
FixedPoolNext ==
  \/ TickStart(1)
  \/ \E sid \in DOMAIN schedules : TickSchedule(1, sid)
  \/ TickCommit(1)
  \/ TickCrash(1)
  \/ \E sid \in DOMAIN schedules : \E p \in {LeftOut} :
       preview_variant_selection(sid, p)
  \/ \E t \in SelectInstants : AdvanceTime(t)

FixedPoolSpec == SelectInit /\ [][FixedPoolNext]_vars

\* --------------------------------------------------- schedule resolution
\* One scheduler replica and the initializer over a schedule of post 1 that
\* was stored without next_run_at.

RRuleSpec(interval, count, components, length) ==
  [interval |-> interval, count |-> count, components |-> components,
   length |-> length]

\* The components of "FREQ=MINUTELY;INTERVAL=i;COUNT=c", and of a rule that
\* also carries WKST, which is not on the whitelist.
RRuleComponents == {{"FREQ", "INTERVAL", "COUNT"}, {"FREQ", "INTERVAL", "WKST"}}

\* The length of an ordinary rule text, and of one over the size limit.
RRuleLengths == {30, MAX_RRULE_LENGTH + 1}

Uninitialized(kind, spec) ==
  ScheduleRow(1, NULL, kind, spec, NULL, "RANDOM_UNIFORM")

ResolverInit ==
  /\ now = 1
  /\ dry_run = TRUE
  /\ \/ \E spec \in {0, 2, 4} : schedules = <<Uninitialized("one_shot", spec)>>
     \/ \E p \in {0, 1, 2} : schedules = <<Uninitialized("cron", p)>>
     \/ \E i \in {1, 2} : \E c \in {2, 3} :
        \E components \in RRuleComponents : \E length \in RRuleLengths :
          schedules = <<Uninitialized("rrule", RRuleSpec(i, c, components, length))>>
     \/ schedules = <<Uninitialized("interval", 1)>>
  /\ variant_active = AllActive
  /\ post_deleted = [p \in PostIds |-> FALSE]
  /\ jobs = NoRows
  /\ job_seq = 0
  /\ history = <<>>
  /\ published = <<>>
  /\ ext_seq = 0
  /\ posted = [j \in JobIds |-> {}]
  /\ queue = EmptyBag
  /\ sent = 0
  /\ runs = 0
  /\ dedupe = {}
  /\ tick = [t \in Ticks |-> IdleTick]
  /\ wk = [w \in Workers |-> IdleWorker]
  /\ returned = {}
  /\ sw = IdleSweeper
  /\ del = IdleDelete
  /\ ip = IdleInstant
  /\ response = NoResponse
  /\ rrule_cache = <<>>

\* The rows initialize_schedules queries: enabled, without next_run_at.
schedules_to_init ==
  {sid \in DOMAIN schedules :
     schedules[sid].next_run_at = NULL /\ schedules[sid].enabled}

\* The row as it would be if the initializer left an unresolvable schedule
\* enabled.
InitializedOrLeft(s, t) ==
  IF resolve_schedule(s, t) # NULL
  THEN [s EXCEPT !.next_run_at = resolve_schedule(s, t)]
  ELSE s

\* One pass of the loop of initialize_schedules: next_run_at from the
\* resolver, or enabled = False when it returns None.
Initialized(s, t) ==
  IF resolve_schedule(s, t) # NULL
  THEN [s EXCEPT !.next_run_at = resolve_schedule(s, t)]
  ELSE [s EXCEPT !.enabled = FALSE]

\* initialize_schedules: every queried row is resolved, then db.commit().
initialize_schedules ==
  /\ schedules_to_init # {}
  /\ schedules' = [sid \in DOMAIN schedules |->
                     IF sid \in schedules_to_init
                     THEN Initialized(schedules[sid], now)
                     ELSE schedules[sid]]
  /\ rrule_cache' = rrule_cache_after_all(rrule_cache, schedules,
                                          schedules_to_init)
  /\ UNCHANGED <<now, dry_run, post_deleted, variant_active, jobs, job_seq,
               history, published, ext_seq, posted, queue, sent, dedupe,
               tick, wk, returned, sw, del, ip, response, runs>>

ResolverNext ==
  \/ initialize_schedules
  \/ TickStart(1)
  \/ \E sid \in DOMAIN schedules : TickSchedule(1, sid)
  \/ TickCommit(1)
  \/ TickCrash(1)
  \/ \E t \in SelectInstants : AdvanceTime(t)

ResolverSpec == ResolverInit /\ [][ResolverNext]_vars

\* ============================================================ retry_job
\* cancel_job and retry_job have no caller in the program; their contract is
\* checked on job rows of every status and every attempt count up to one
\* past the budget.
RetryBudgets == {3, MAX_ATTEMPTS}

\* A job row in the given status: a finished job has finished_at, a failed,
\* dead-lettered or cancelled one has an error as well.
StoredJob(status, attempt, error) ==
  [JobRow(1, 1, NULL, 1) EXCEPT
     !.status = status, !.attempt = attempt,
     !.enqueued_at = IF status = PLANNED THEN NULL ELSE 1,
     !.started_at = IF status \in {PLANNED, ENQUEUED, CANCELLED} THEN NULL ELSE 1,
     !.finished_at = IF is_terminal_state(status) \/ status = FAILED
                     THEN 1 ELSE NULL,
     !.error = IF status \in {FAILED, DEAD_LETTER, CANCELLED} THEN TRUE
               ELSE IF status = SUCCEEDED THEN FALSE ELSE error]

RetryInit ==
  /\ now = 1
  /\ dry_run = TRUE
  /\ schedules = <<PostOneShot>>
  /\ \E status \in PublishJobStatus : \E attempt \in 0..(MAX_ATTEMPTS + 1) :
       \E error \in BOOLEAN :
         jobs = <<StoredJob(status, attempt, error)>>
  /\ job_seq = 1
  /\ variant_active = AllActive
  /\ post_deleted = [p \in PostIds |-> FALSE]
  /\ history = <<>>
  /\ published = <<>>
  /\ ext_seq = 0
  /\ posted = [j \in JobIds |-> {}]
  /\ queue = EmptyBag
  /\ sent = 0
  /\ runs = 0
  /\ dedupe = {}
  /\ tick = [t \in Ticks |-> IdleTick]
  /\ wk = [w \in Workers |-> IdleWorker]
  /\ returned = {}
  /\ sw = IdleSweeper
  /\ del = IdleDelete
  /\ ip = IdleInstant
  /\ response = NoResponse
  /\ rrule_cache = <<>>

RetryNext ==
  \/ \E j \in JobIds : \E max_attempts \in RetryBudgets :
       retry_job(j, max_attempts)
  \/ \E j \in JobIds : cancel_job(j)
  \/ \E t \in SelectInstants : AdvanceTime(t)

RetrySpec == RetryInit /\ [][RetryNext]_vars

\* ============================================================ attempt budget
\* The workers alone, on the job of the one-shot fire of post 1: the job is
\* enqueued and has not run, and the queue holds one publish message for it
\* per sweep that found it orphaned while no worker consumed (the tick's
\* message and those of re_enqueue_orphaned_job, which sends one at every
\* sweep for as long as the job stays enqueued).
QueuedCopies == 1..(MAX_ATTEMPTS + 1)

BudgetInit ==
  /\ now = MaxTime
  /\ dry_run \in BOOLEAN
  /\ variant_active = AllActive
  /\ schedules = <<AdvanceSchedule(PostOneShot, 1, NULL, 1)>>
  /\ post_deleted = [p \in PostIds |-> FALSE]
  /\ jobs = <<WaitingJob(ENQUEUED, 1)>>
  /\ job_seq = 1
  /\ history = <<>>
  /\ published = <<>>
  /\ ext_seq = 0
  /\ posted = [j \in JobIds |-> {}]
  /\ \E n \in QueuedCopies :
       /\ queue = [m \in {Msg(1)} |-> n]
       /\ sent = n
  /\ runs = 0
  /\ dedupe = {DedupeKey(1, 1)}
  /\ tick = [t \in Ticks |-> IdleTick]
  /\ wk = [w \in Workers |-> IdleWorker]
  /\ returned = {}
  /\ sw = IdleSweeper
  /\ del = IdleDelete
  /\ ip = IdleInstant
  /\ response = NoResponse
  /\ rrule_cache = <<>>

BudgetNext ==
  \/ \E w \in Workers : Deliver(w)
  \/ \E w \in Workers : WorkerStep(w)

BudgetSpec == BudgetInit /\ [][BudgetNext]_vars

\* ============================================================ sweeper runs
\* Sweeper runs one after the other within one minute (the cleanup tasks of
\* two beat replicas for the same mark, taken by the workers in turn), and
\* the publish workers. The job of the one-shot fire of post 1 waits, and
\* the broker holds no message for it: sent counts the messages the sweeper
\* runs have sent since.
OrphanInit ==
  /\ now = MaxTime
  /\ dry_run \in BOOLEAN
  /\ variant_active = AllActive
  /\ schedules = <<AdvanceSchedule(PostOneShot, 1, NULL, 1)>>
  /\ post_deleted = [p \in PostIds |-> FALSE]
  /\ \E r \in WaitingJobs : jobs = <<r>>
  /\ job_seq = 1
  /\ history = <<>>
  /\ published = <<>>
  /\ ext_seq = 0
  /\ posted = [j \in JobIds |-> {}]
  /\ queue = EmptyBag
  /\ sent = 0
  /\ runs = 0
  /\ dedupe = {DedupeKey(1, 1)}
  /\ tick = [t \in Ticks |-> IdleTick]
  /\ wk = [w \in Workers |-> IdleWorker]
  /\ returned = {}
  /\ sw = IdleSweeper
  /\ del = IdleDelete
  /\ ip = IdleInstant
  /\ response = NoResponse
  /\ rrule_cache = <<>>

OrphanNext ==
  \/ SweepFind
  \/ \E j \in JobIds : SweepOrphan(j)
  \/ \E j \in JobIds : SweepPlanned(j)
  \/ SweepPlannedMark
  \/ \E w \in Workers : Deliver(w)
  \/ \E w \in Workers : WorkerStep(w)

OrphanSpec == OrphanInit /\ [][OrphanNext]_vars

\* ============================================================ rule cache
\* The resolver of one process, called for RRULE schedules one call after
\* the other. The cache holds the rules of the schedules 1..n, compiled in
\* the order of their ids (as initialize_schedules compiles them), for a
\* cache that is empty, one entry short of full, or full.
CacheFills == {0, MAX_CACHE_SIZE - 1, MAX_CACHE_SIZE}

\* The schedules the resolver is called for: two that a filled cache holds
\* as its oldest entries, and two beyond the capacity.
CachedIds == {1, 2, MAX_CACHE_SIZE + 1, MAX_CACHE_SIZE + 2}

\* The row of an RRULE schedule created at created_at.
RRuleSchedule(rrule_spec, created_at) ==
  [ScheduleRow(1, NULL, "rrule", rrule_spec, NULL, "RANDOM_UNIFORM")
     EXCEPT !.created_at = created_at]

\* The rows the resolver is called with: the rule the cache was filled
\* with, the same rule with another DTSTART, an edited rule, and a rule
\* that does not validate.
ResolvedRows ==
  {RRuleSchedule(RRuleSpec(1, 2, {"FREQ", "INTERVAL", "COUNT"}, 30), 0),
   RRuleSchedule(RRuleSpec(1, 2, {"FREQ", "INTERVAL", "COUNT"}, 30), 1),
   RRuleSchedule(RRuleSpec(2, 2, {"FREQ", "INTERVAL", "COUNT"}, 30), 0),
   RRuleSchedule(RRuleSpec(1, 2, {"FREQ", "INTERVAL", "WKST"}, 30), 0)}

FilledCache(n) ==
  [i \in 1..n |->
     CacheEntry(i, RRuleSpec(1, 2, {"FREQ", "INTERVAL", "COUNT"}, 30), 0)]

CacheInit ==
  /\ now = 1
  /\ dry_run = TRUE
  /\ variant_active = AllActive
  /\ schedules = <<>>
  /\ post_deleted = [p \in PostIds |-> FALSE]
  /\ jobs = NoRows
  /\ job_seq = 0
  /\ history = <<>>
  /\ published = <<>>
  /\ ext_seq = 0
  /\ posted = [j \in JobIds |-> {}]
  /\ queue = EmptyBag
  /\ sent = 0
  /\ runs = 0
  /\ dedupe = {}
  /\ tick = [t \in Ticks |-> IdleTick]
  /\ wk = [w \in Workers |-> IdleWorker]
  /\ returned = {}
  /\ sw = IdleSweeper
  /\ del = IdleDelete
  /\ ip = IdleInstant
  /\ response = NoResponse
  /\ \E n \in CacheFills : rrule_cache = FilledCache(n)

\* One call of ScheduleResolver.resolve_schedule for an RRULE schedule.
ResolveRRule(schedule_id, s) ==
  /\ runs < MaxCalls
  /\ runs' = runs + 1
  /\ rrule_cache' = rrule_cache_after(rrule_cache, schedule_id, s)
  /\ UNCHANGED <<now, dry_run, post_deleted, variant_active, schedules, jobs,
               job_seq, history, published, ext_seq, posted, queue, sent,
               dedupe, tick, wk, returned, sw, del, ip, response>>

CacheNext ==
  \E schedule_id \in CachedIds : \E s \in ResolvedRows :
    ResolveRRule(schedule_id, s)

CacheSpec == CacheInit /\ [][CacheNext]_vars
\* ------------------------------------------------------------ properties
\* C1: every status change of a PublishJob, by whichever operation, is an
\* edge of VALID_TRANSITIONS.
C1_StatusChangesFollowTable ==
  [][\A j \in DOMAIN jobs :
       jobs'[j].status # jobs[j].status
         => is_valid_transition(jobs[j].status, jobs'[j].status)]_vars

\* C2: at most one PublishJob row is ever committed for a given
\* (schedule_id, planned_at), whatever the interleaving of tick replicas,
\* crashed and re-run ticks, and instant publishes.
C2_OneJobPerFire ==
  \A i, j \in DOMAIN jobs :
    (jobs[i].schedule_id = jobs[j].schedule_id
       /\ jobs[i].planned_at = jobs[j].planned_at) => i = j

\* A job is committed for a fire of a schedule no tick has committed, and a
\* tick that took the dedupe lock of that very fire has ended without a row:
\* its insert was refused, or it was rolled back.
C2_Witness ==
  /\ \A t \in Ticks : tick[t].pc = "idle"
  /\ \E j \in DOMAIN jobs :
       /\ schedules[jobs[j].schedule_id].last_run_at = NULL
       /\ DedupeKey(jobs[j].schedule_id, jobs[j].planned_at) \in dedupe

\* C3: the content of one job is accepted by the external endpoint at most
\* once, also when the job id is delivered more than once.
C3_PublishedAtMostOnce ==
  \A j \in JobIds : Cardinality(posted[j]) <= 1

\* C4, as stated: when a tick commits, every schedule it claimed has exactly
\* one job for the next_run_at it was claimed with.
C4_OneJobPerClaimedSchedule ==
  [][\A t \in Ticks : TickCommit(t) =>
       \A sid \in DOMAIN tick[t].claimed :
         Cardinality({j \in DOMAIN jobs' :
                        /\ jobs'[j].schedule_id = sid
                        /\ jobs'[j].planned_at = tick[t].claimed[sid]}) = 1]_vars

\* C4, amended: when a tick commits, every claimed schedule for which it took
\* the dedupe lock and (for a template schedule) selected a variant has
\* exactly one job for the next_run_at it was claimed with, and the tick
\* commits no job for a schedule it skipped.
C4_OneJobPerCreatedFire ==
  [][\A t \in Ticks : TickCommit(t) =>
       \A sid \in DOMAIN tick[t].claimed :
         IF <<sid, tick[t].claimed[sid]>> \in tick[t].created
         THEN Cardinality({j \in DOMAIN jobs' :
                             /\ jobs'[j].schedule_id = sid
                             /\ jobs'[j].planned_at = tick[t].claimed[sid]}) = 1
         ELSE \A j \in DOMAIN tick[t].jobs :
                tick[t].jobs[j].schedule_id # sid]_vars

\* A tick has committed the fire of a schedule (only the commit of a tick
\* writes last_run_at) and the job of that fire is there.
C4_Witness ==
  \E sid \in DOMAIN schedules :
    /\ schedules[sid].last_run_at # NULL
    /\ \E j \in DOMAIN jobs :
         /\ jobs[j].schedule_id = sid
         /\ jobs[j].planned_at = schedules[sid].last_run_at

\* C5: a delivery of a job that is in a terminal state changes nothing: the
\* worker returns at once, the job row, the published posts and the posts
\* the endpoint accepted stay as they were, at every such delivery.
C5_TerminalJobUntouched ==
  [][\A w \in Workers : \A j \in DOMAIN jobs :
       (/\ Deliver(w)
        /\ queue' = queue (-) SetToBag({Msg(j)})
        /\ jobs[j].status \in TERMINAL_STATES)
       => /\ wk'[w] = IdleWorker
          /\ jobs' = jobs
          /\ published' = published
          /\ posted' = posted]_vars

\* publish_post has returned "already_completed" for a job, which is terminal
\* and has no worker on it.
C5_Witness ==
  \E j \in returned :
    /\ jobs[j].status \in TERMINAL_STATES
    /\ \A w \in Workers : wk[w].job_id # j

\* C6: no two PublishedPost rows share an external post id, and the
\* deliveries of one job add at most one PublishedPost.
C6_OneRowPerExternalId ==
  /\ \A a, b \in 1..Len(published) :
       published[a].x_post_id = published[b].x_post_id => a = b
  /\ \A j \in JobIds :
       Cardinality({i \in 1..Len(published) :
                      published[i].x_post_id \in posted[j]}) <= 1

\* C7: a job does not stay in failed: while it is failed, a retry of it is
\* queued or under way.
C7_FailedJobIsRetried ==
  \A j \in DOMAIN jobs :
    jobs[j].status = FAILED
      => \/ BagIn(Msg(j), queue)
         \/ \E w \in Workers : wk[w].job_id = j

\* C8: when a soft-delete completes, every job of the post's schedules that
\* was in no terminal state when the delete read it is cancelled, with
\* finished_at set.
C8_DeleteCancelsOpenJobs ==
  [][DeleteCommit =>
       \A j \in del.open :
         jobs'[j].status = CANCELLED /\ jobs'[j].finished_at # NULL]_vars

\* C9: once the soft-delete of a post has committed, no PublishedPost row is
\* created for that post.
C9_NoRowAfterDelete ==
  [][\A i \in 1..Len(published') :
       (i > Len(published) /\ published'[i].post_id # NULL)
         => ~post_deleted[published'[i].post_id]]_vars

\* C10: a worker that finds its job still planned moves it to running, with
\* started_at set and attempt incremented, and goes on to publish.
C10_PlannedJobIsRun ==
  [][\A w \in Workers :
       (WorkerToRunning(w) /\ jobs[wk[w].job_id].status = PLANNED)
         => /\ jobs'[wk[w].job_id].status = RUNNING
            /\ jobs'[wk[w].job_id].started_at # NULL
            /\ jobs'[wk[w].job_id].attempt = jobs[wk[w].job_id].attempt + 1
            /\ wk'[w].pc = "load"]_vars

\* C11: when a tick commits a job whose message the queue accepted, the job is
\* in enqueued with enqueued_at set; a job the tick commits as planned is one
\* whose enqueue failed.
C11_TickJobEnqueuedAtCommit ==
  [][\A t \in Ticks : TickCommit(t) =>
       \A j \in DOMAIN tick[t].jobs :
         BagIn(Msg(j), queue)
           => jobs'[j].status = ENQUEUED /\ jobs'[j].enqueued_at # NULL]_vars

\* C13: the dedupe lock loses no fire: whenever a tick processes a claimed
\* schedule whose fire has no job yet, committed or pending, and a job for it
\* can be created (a post schedule, or a template with a selectable variant),
\* the tick creates the job, whoever took the lock of that fire before.
C13_LockLosesNoFire ==
  [][\A t \in Ticks : \A sid \in DOMAIN schedules :
       (/\ TickSchedule(t, sid)
        /\ ~unique_schedule_planned_at(jobs, sid, tick[t].sched[sid].next_run_at)
        /\ ~unique_schedule_planned_at(tick[t].jobs, sid,
                                       tick[t].sched[sid].next_run_at)
        /\ \/ tick[t].sched[sid].template_id = NULL
           \/ select_variant(tick[t].sched[sid], sid,
                             Naive(tick[t].sched[sid].next_run_at),
                             history).variant # NULL)
       => <<sid, tick[t].sched[sid].next_run_at>> \in tick'[t].created]_vars

C15_ReEnqueueSetsEnqueuedAt ==
  [][\A j \in DOMAIN jobs :
       (SweepOrphan(j) /\ still_orphaned(j) /\ queue' # queue)
         => jobs'[j].enqueued_at = now]_vars

\* C16: what a tick persists for one fire is committed together or not at
\* all. A step that changes a schedule row adds the job of the fire (with
\* last_run_at and next_run_at or enabled written) and, for a template, its
\* history row; a history row comes with its job and its schedule update; a
\* job a tick commits comes with its schedule update and, under round robin,
\* the cursor change; a tick that crashes or fails changes none of the three
\* tables.
C16_FireCommittedWhole ==
  [][/\ \A sid \in DOMAIN schedules :
          schedules'[sid] # schedules[sid] =>
            \E j \in DOMAIN jobs' \ DOMAIN jobs :
              /\ jobs'[j].schedule_id = sid
              /\ jobs'[j].planned_at = schedules[sid].next_run_at
              /\ schedules'[sid].last_run_at = jobs'[j].planned_at
              /\ \/ schedules'[sid].next_run_at # schedules[sid].next_run_at
                 \/ ~schedules'[sid].enabled
              /\ schedules[sid].template_id # NULL =>
                   \E i \in (Len(history) + 1)..Len(history') :
                     /\ history'[i].job_id = j
                     /\ history'[i].variant_id = jobs'[j].variant_id
     /\ \A i \in (Len(history) + 1)..Len(history') :
          /\ history'[i].job_id \in DOMAIN jobs' \ DOMAIN jobs
          /\ schedules'[history'[i].schedule_id] # schedules[history'[i].schedule_id]
     /\ \A t \in Ticks : TickCommit(t) =>
          \A j \in DOMAIN jobs' \ DOMAIN jobs :
            LET sid == jobs'[j].schedule_id
            IN /\ schedules'[sid].last_run_at = jobs'[j].planned_at
               /\ schedules'[sid] # schedules[sid]
               /\ schedules[sid].selection_policy = "ROUND_ROBIN"
                    => schedules'[sid].last_variant_pos # schedules[sid].last_variant_pos
     /\ \A t \in Ticks :
          (tick[t].pc = "loop" /\ tick'[t] = IdleTick /\ ~TickCommit(t))
            => jobs' = jobs /\ schedules' = schedules /\ history' = history]_vars

\* A tick has committed a fire of a round-robin template schedule: the job,
\* its history row, the cursor and last_run_at are all there.
C16_Witness ==
  \E i \in 1..Len(history) :
    /\ history[i].job_id \in DOMAIN jobs
    /\ jobs[history[i].job_id].planned_at
         = schedules[history[i].schedule_id].last_run_at
    /\ schedules[history[i].schedule_id].last_variant_pos # NULL

\* C17: when the insert of one claimed schedule is refused by the UNIQUE
\* constraint, the tick goes on and keeps what it has pending for the other
\* schedules of the batch, to commit it.
C17_FailureKeepsBatch ==
  [][\A t \in Ticks : \A sid \in DOMAIN schedules :
       (/\ TickSchedule(t, sid)
        /\ acquire_dedupe_lock(dedupe, sid, tick[t].sched[sid].next_run_at)
        /\ unique_schedule_planned_at(jobs, sid, tick[t].sched[sid].next_run_at)
        /\ tick[t].created # {})
       => /\ tick'[t].pc = "loop"
          /\ tick'[t].jobs = tick[t].jobs
          /\ tick'[t].created = tick[t].created]_vars

\* C18, as stated: of two jobs of one schedule, the one created later (the
\* higher id) has the greater planned_at.
C18_JobsInPlannedAtOrder ==
  \A i, j \in DOMAIN jobs :
    (jobs[i].schedule_id = jobs[j].schedule_id /\ i < j)
      => jobs[i].planned_at < jobs[j].planned_at

\* C18, amended: the fires the ticks materialise for a schedule are in
\* strictly increasing planned_at order: every job a tick commits has a
\* planned_at greater than last_run_at, the planned_at of the fire committed
\* by the tick before it.
C18_FiresInPlannedAtOrder ==
  [][\A t \in Ticks : TickCommit(t) =>
       \A j \in DOMAIN tick[t].jobs :
         LET last_run_at == schedules[tick[t].jobs[j].schedule_id].last_run_at
         IN /\ last_run_at = NULL \/ last_run_at < tick[t].jobs[j].planned_at
            /\ schedules'[tick[t].jobs[j].schedule_id].last_run_at
                 = tick[t].jobs[j].planned_at]_vars

\* Two ticks have each committed a fire of one schedule, the later fire
\* being the one last_run_at records.
C18_Witness ==
  \E i, j \in DOMAIN jobs :
    /\ jobs[i].schedule_id = jobs[j].schedule_id
    /\ jobs[i].variant_id # NULL /\ jobs[j].variant_id # NULL
    /\ jobs[i].planned_at < jobs[j].planned_at
    /\ schedules[jobs[j].schedule_id].last_run_at = jobs[j].planned_at

\* C19: when a tick commits the fire of a schedule for which the resolver
\* returns no further occurrence, the schedule is left with enabled = false
\* and next_run_at = null.
C19_ExhaustedScheduleCleared ==
  [][\A t \in Ticks : TickCommit(t) =>
       \A sid \in DOMAIN tick[t].claimed :
         (/\ <<sid, tick[t].claimed[sid]>> \in tick[t].created
          /\ resolve_schedule(tick[t].sched[sid], now) = NULL)
         => /\ ~schedules'[sid].enabled
            /\ schedules'[sid].next_run_at = NULL]_vars

\* C20: a call of update_job_status whose target status is no allowed
\* successor of the job's status raises (the worker goes to its except
\* block) and leaves the status and every other field of every job as it was.
C20_InvalidEdgeLeavesRow ==
  [][\A w \in Workers :
       /\ (/\ WorkerToRunning(w)
           /\ ~is_valid_transition(jobs[wk[w].job_id].status, RUNNING))
          => jobs' = jobs /\ wk'[w].pc = "except"
       /\ (/\ WorkerToSucceeded(w)
           /\ ~is_valid_transition(jobs[wk[w].job_id].status, SUCCEEDED))
          => jobs' = jobs /\ wk'[w].pc = "except"]_vars

\* A worker is in its except block for a job that is planned and was never
\* started: its update_job_status(job, running) was refused.
C20_Witness ==
  \E w \in Workers :
    /\ wk[w].pc = "except"
    /\ jobs[wk[w].job_id].status = PLANNED
    /\ jobs[wk[w].job_id].started_at = NULL

\* C12: a job that waits (planned with planned_at <= now, or enqueued and
\* never started) is eventually handed to a worker and running, or is
\* cancelled, while the sweeper, the queue and the workers keep running.
C12_WaitingJobIsRun ==
  \A j \in JobIds :
    (/\ j \in DOMAIN jobs
     /\ \/ jobs[j].status = PLANNED /\ jobs[j].planned_at <= now
        \/ jobs[j].status = ENQUEUED /\ jobs[j].started_at = NULL)
    ~> (/\ j \in DOMAIN jobs
        /\ \/ jobs[j].status = CANCELLED
           \/ /\ jobs[j].status = RUNNING
              /\ \E w \in Workers : wk[w].job_id = j)

\* A job that waited with a stale enqueued_at is running on a worker.
C12_Witness ==
  \E j \in DOMAIN jobs : \E w \in Workers :
    /\ wk[w].job_id = j
    /\ jobs[j].status = RUNNING
    /\ jobs[j].enqueued_at # NULL
    /\ jobs[j].enqueued_at < jobs[j].started_at - TIMEOUT_MINUTES


\* C21: once a job is succeeded, dead_letter or cancelled, no later step of
\* any operation (worker run, re-enqueue, sweeper pass, soft-delete of the
\* post) changes its status.
C21_TerminalStatusKept ==
  [][\A j \in DOMAIN jobs :
       jobs[j].status \in TERMINAL_STATES =>
         jobs'[j].status = jobs[j].status]_vars

\* C22: the round-robin cursor (last_variant_pos) of a schedule changes only
\* in a step that also makes a new PublishJob of that schedule visible,
\* whichever caller ran the selector.
C22_CursorMovesWithJob ==
  [][\A sid \in DOMAIN schedules :
       schedules'[sid].last_variant_pos # schedules[sid].last_variant_pos =>
         \E j \in DOMAIN jobs' \ DOMAIN jobs : jobs'[j].schedule_id = sid]_vars

\* C23: for the same (schedule_id, planned_at) the selector returns the same
\* variant and the same seed whenever it is called: while the active pool
\* of the template is left alone, what select_variant returns for a given
\* pair is the same before and after every step.
C23_SameArgumentsSameResult ==
  [][variant_active' = variant_active =>
       \A sid \in DOMAIN schedules : \A p \in SelectInstants :
         schedules[sid].template_id # NULL =>
           /\ select_variant(schedules[sid], sid, Naive(p), history)'.variant
                = select_variant(schedules[sid], sid, Naive(p), history).variant
           /\ select_variant(schedules[sid], sid, Naive(p), history)'.seed
                = select_variant(schedules[sid], sid, Naive(p), history).seed]_vars

C26_ConsecutiveFiresDiffer ==
  \A i \in DOMAIN history : \A k \in DOMAIN history :
    (/\ k = i + 1
     /\ history[i].schedule_id = history[k].schedule_id
     /\ schedules[history[i].schedule_id].selection_policy = "ROUND_ROBIN")
    => history[i].variant_id # history[k].variant_id

\* C27: at every moment, each visible PublishJob with a chosen variant has
\* exactly one visible VariantSelectionHistory row, with the job's id,
\* variant, schedule and planned_at and the schedule's template; a job
\* without a variant has none, and every history row belongs to a visible
\* job (the job and its row are committed together).
C27_OneHistoryRowPerVariantJob ==
  /\ \A j \in DOMAIN jobs :
       LET rows == {i \in DOMAIN history : history[i].job_id = j}
       IN IF jobs[j].variant_id # NULL
          THEN /\ Cardinality(rows) = 1
               /\ \A i \in rows :
                    /\ history[i].variant_id = jobs[j].variant_id
                    /\ history[i].schedule_id = jobs[j].schedule_id
                    /\ history[i].planned_at = jobs[j].planned_at
                    /\ history[i].template_id
                         = schedules[jobs[j].schedule_id].template_id
          ELSE rows = {}
  /\ \A i \in DOMAIN history : history[i].job_id \in DOMAIN jobs

\* A job of the template schedule with its variant and its history row, and
\* a job of the post schedule without a variant, are both visible.
C27_Witness ==
  /\ Len(history) = 1
  /\ \E j \in DOMAIN jobs : jobs[j].variant_id # NULL /\ history[1].job_id = j
  /\ \E j \in DOMAIN jobs :
       /\ jobs[j].variant_id = NULL
       /\ schedules[jobs[j].schedule_id].template_id = NULL

\* C28: for a cron or rrule schedule with last_run_at set, what the resolver
\* returns is strictly later than last_run_at, and so is the next_run_at a
\* tick has stored (or is about to commit) on an enabled schedule after
\* firing it.
C28_NextFireAfterLastRun ==
  \A sid \in DOMAIN schedules :
    \A s \in {schedules[sid]} \cup {tick[t].sched[sid] :
                t \in {u \in Ticks : sid \in DOMAIN tick[u].sched}} :
      (s.kind \in {"cron", "rrule"} /\ s.last_run_at # NULL) =>
        /\ resolve_schedule(s, now) # NULL => resolve_schedule(s, now) > s.last_run_at
        /\ (s.enabled /\ s.next_run_at # NULL) => s.next_run_at > s.last_run_at

\* An rrule schedule has been fired by a committed tick and stays enabled
\* with a later next_run_at.
C28_Witness ==
  \E sid \in DOMAIN schedules :
    /\ schedules[sid].kind = "rrule"
    /\ schedules[sid].enabled
    /\ schedules[sid].last_run_at # NULL
    /\ schedules[sid].next_run_at > schedules[sid].last_run_at
    /\ \E j \in DOMAIN jobs : jobs[j].planned_at = schedules[sid].last_run_at

\* C29: a schedule whose spec does not parse or validate (a one-shot text
\* that is not a date, a crontab croniter rejects, an RRULE with a component
\* off the whitelist or over the size limit, an unknown kind) resolves to
\* none, not to an exception, before and after every step; a step in which
\* the initializer or a tick resolves a schedule to none leaves the schedule
\* disabled; and the row the initializer or the tick is about to write for
\* a schedule that resolves to none has enabled = false.
C29_UnresolvableIsDisabled ==
  [][/\ \A sid \in DOMAIN schedules : \A s \in {schedules[sid], schedules'[sid]} :
          (\/ s.kind = "one_shot" /\ s.schedule_spec < 1
           \/ s.kind = "cron" /\ s.schedule_spec < 1
           \/ /\ s.kind = "rrule"
              /\ \/ s.schedule_spec.length > MAX_RRULE_LENGTH
                 \/ \E c \in s.schedule_spec.components : c \notin ALLOWED_COMPONENTS
           \/ s.kind \notin {"one_shot", "cron", "rrule"})
          => resolve_schedule(s, now) = NULL
     /\ \A sid \in DOMAIN schedules :
          LET s == schedules[sid]
              fired == schedules'[sid].last_run_at # s.last_run_at
              resolved == IF fired THEN [s EXCEPT !.last_run_at = s.next_run_at]
                          ELSE s
          IN (schedules'[sid] # s /\ resolve_schedule(resolved, now) = NULL)
             => ~schedules'[sid].enabled
     /\ \A sid \in schedules_to_init :
          resolve_schedule(schedules[sid], now) = NULL
            => ~Initialized(schedules[sid], now).enabled
     /\ \A t \in Ticks : \A sid \in tick[t].due :
          LET s == tick[t].sched[sid]
          IN resolve_schedule([s EXCEPT !.last_run_at = s.next_run_at], now) = NULL
               => ~AdvanceSchedule(s, s.next_run_at, NULL, now).enabled]_vars

\* The initializer has disabled a schedule whose RRULE carries a component
\* that is not on the whitelist.
C29_Witness ==
  \E sid \in DOMAIN schedules :
    /\ schedules[sid].kind = "rrule"
    /\ "WKST" \in schedules[sid].schedule_spec.components
    /\ ~schedules[sid].enabled
    /\ schedules[sid].next_run_at = NULL

\* C30: whenever the selector returns a variant, the seed depends only on
\* the schedule id and on planned_at in UTC at whole-second precision: two
\* previews in a row for the same schedule and the same UTC instant, however
\* planned_at is spelled (fraction of a second, naive or with an offset),
\* answer with the same seed, and the seed is the one of the naive UTC
\* datetime a tick passes for that instant.
C30_SeedOfUtcSecond ==
  [][/\ (/\ response.variant_id # NULL
         /\ response'.variant_id # NULL
         /\ response'.schedule_id = response.schedule_id
         /\ utc_minute(response'.planned_at) = utc_minute(response.planned_at))
        => response'.selection_seed = response.selection_seed
     /\ response'.variant_id # NULL
        => response'.selection_seed
             = select_variant(schedules[response'.schedule_id],
                 response'.schedule_id,
                 Naive(utc_minute(response'.planned_at)), <<>>).seed]_vars

\* A preview asked for an instant spelled with a fraction of a second and an
\* offset from UTC has returned a variant and a seed.
C30_Witness ==
  /\ response.variant_id # NULL
  /\ response.planned_at.microsecond # 0
  /\ response.planned_at.utcoffset = 1
  /\ response.selection_seed
       = generate_seed(response.schedule_id,
                       Datetime(response.planned_at.wall - 1, 0, 0))

\* ---------------------------------------------------------------------
\* C31: retry_job on a failed job moves it to running with error and
\* finished_at cleared when its attempt count is below max_attempts, and to
\* dead_letter with finished_at set when the attempt count has reached
\* max_attempts; on a job that is not failed it raises and changes nothing.
C31_RetryJobContract ==
  [][\A j \in DOMAIN jobs : \A max_attempts \in RetryBudgets :
       retry_job(j, max_attempts) =>
         IF jobs[j].status = FAILED
         THEN /\ response' = Returned(jobs'[j])
              /\ IF jobs[j].attempt < max_attempts
                 THEN /\ jobs'[j].status = RUNNING
                      /\ jobs'[j].error = FALSE
                      /\ jobs'[j].finished_at = NULL
                 ELSE /\ jobs'[j].status = DEAD_LETTER
                      /\ jobs'[j].finished_at = now
         ELSE /\ response' = Raised
              /\ jobs' = jobs]_vars

\* A failed job with an error and a finish time has been retried within its
\* budget and is running with both cleared.
C31_Witness ==
  /\ response = Returned(jobs[1])
  /\ jobs[1].status = RUNNING
  /\ jobs[1].attempt = MAX_ATTEMPTS - 1
  /\ jobs[1].error = FALSE
  /\ jobs[1].finished_at = NULL
  /\ jobs[1].started_at = now

\* ---------------------------------------------------------------------
\* C33: every invocation of the publish worker for a stored job has
\* released the dedupe lock of the job's (schedule_id, planned_at) when it
\* returns: on success, on a publish failure, on a rejected transition (the
\* returns of WorkerToSucceeded and WorkerExcept), and on the early exit
\* for a job that is already terminal (the return inside Deliver).
C33_LockReleasedOnEveryExit ==
  [][/\ \A w \in Workers :
          (wk[w].pc # "idle" /\ wk'[w].pc = "idle"
             /\ wk[w].job_id \in DOMAIN jobs)
          => DedupeKey(jobs[wk[w].job_id].schedule_id,
                       jobs[wk[w].job_id].planned_at) \notin dedupe'
     /\ \A w \in Workers : \A m \in BagToSet(queue) :
          (/\ Deliver(w)
           /\ queue' = queue (-) SetToBag({m})
           /\ wk'[w].pc = "idle"
           /\ m.job_id \in DOMAIN jobs)
          => DedupeKey(jobs[m.job_id].schedule_id,
                       jobs[m.job_id].planned_at) \notin dedupe']_vars

\* ---------------------------------------------------------------------
\* C34: a job's attempt count equals the number of times the job has
\* entered running: a new job has attempt 0, every step that moves a job
\* into running adds exactly one to its attempt, and no other step changes
\* the attempt of a job.
C34_AttemptCountsEntriesIntoRunning ==
  [][\A j \in DOMAIN jobs' :
       IF j \notin DOMAIN jobs
       THEN jobs'[j].attempt = 0
       ELSE IF jobs[j].status # RUNNING /\ jobs'[j].status = RUNNING
       THEN jobs'[j].attempt = jobs[j].attempt + 1
       ELSE jobs'[j].attempt = jobs[j].attempt]_vars

\* ---------------------------------------------------------------------
\* C35: no job is run more than MAX_ATTEMPTS times: no step moves a job
\* into running when its attempt count has already reached MAX_ATTEMPTS.
C35_NoRunBeyondBudget ==
  [][\A j \in DOMAIN jobs :
       (jobs[j].status # RUNNING /\ jobs'[j].status = RUNNING)
       => jobs[j].attempt < MAX_ATTEMPTS]_vars

\* ---------------------------------------------------------------------
\* C36: two sweeper runs never both re-enqueue the same orphaned job within
\* the cooldown period: a run of re_enqueue_orphaned_job sends a publish
\* message for a job only if no sweeper run has sent one for it within the
\* last COOLDOWN_MINUTES. (In OrphanSpec the clock stands still and only
\* the sweeper sends, so sent > 0 means that an earlier run has sent.)
C36_OneReEnqueuePerCooldown ==
  [][\A j \in DOMAIN jobs :
       (SweepOrphan(j) /\ queue' # queue) => sent = 0]_vars

\* ---------------------------------------------------------------------
\* C37: instant publish never leaves a schedule with more than one active
\* job: when a request that has created a job returns, that job is the only
\* job of its schedule in planned, enqueued or running, also when a tick
\* runs at the same time.
C37_InstantLeavesOneActiveJob ==
  [][(ip.pc \in {"enqueue", "mark"} /\ ip'.pc = "idle")
     => \A j \in DOMAIN jobs' :
          (/\ jobs'[j].schedule_id = ip.schedule_id
           /\ jobs'[j].status \in {PLANNED, ENQUEUED, RUNNING})
          => j = ip.job_id]_vars

\* ---------------------------------------------------------------------
\* C38: every publish message the tick puts on the queue refers to a
\* committed job: a worker that takes a message from the queue finds the job
\* row, and when a tick's transaction is rolled back no message for a job
\* of that transaction remains on the queue.
C38_TickMessageHasCommittedJob ==
  [][/\ \A w \in Workers : \A m \in BagToSet(queue) :
          (Deliver(w) /\ queue' = queue (-) SetToBag({m}))
          => m.job_id \in DOMAIN jobs
     /\ \A t \in Ticks :
          TickCrash(t)
          => \A j \in DOMAIN tick[t].jobs : ~BagIn(Msg(j), queue')]_vars

\* ---------------------------------------------------------------------
\* C39: the job record agrees with what was published: when a worker whose
\* publish call has succeeded and whose PublishedPost row is committed
\* comes to record the outcome, the job is not left in failed or in
\* cancelled.
C39_PublishedJobNotFailedOrCancelled ==
  [][\A w \in Workers :
       (wk[w].pc = "to_succeeded" /\ wk'[w].pc # "to_succeeded")
       => jobs'[wk[w].job_id].status \notin {FAILED, CANCELLED}]_vars

\* ---------------------------------------------------------------------
\* C40: the compiled-RRULE cache never holds more than MAX_CACHE_SIZE
\* entries after a resolve call, and the entry an insertion evicts is the
\* least recently used one. The entries stand in the order of their last
\* use: every call that compiles or reuses a rule leaves that rule's key
\* last and keeps the order of all other keys, and the only entry ever
\* dropped is the first of them, when a new key comes to a full cache.
C40_CacheBoundedAndLeastRecentEvicted ==
  [][/\ Len(rrule_cache') <= MAX_CACHE_SIZE
     /\ \A schedule_id \in CachedIds : \A s \in ResolvedRows :
          (ResolveRRule(schedule_id, s) /\ validate_rrule(s.schedule_spec))
          => LET key == CacheEntry(schedule_id, s.schedule_spec,
                                   s.created_at).key
                 other(e) == e.key # key
                 before == SelectSeq(rrule_cache, other)
                 after == SelectSeq(rrule_cache', other)
                 miss == \A i \in 1..Len(rrule_cache) : rrule_cache[i].key # key
             IN /\ rrule_cache'[Len(rrule_cache')].key = key
                /\ rrule_cache'[Len(rrule_cache')].dtstart = s.created_at
                /\ Len(after) = Len(rrule_cache') - 1
                /\ IF miss /\ Len(rrule_cache) = MAX_CACHE_SIZE
                   THEN after = Tail(before)
                   ELSE after = before]_vars

\* A full cache to which a new schedule has come after the oldest entry
\* (schedule 1) was used again: schedule 2 has been evicted, schedule 1 is
\* kept, and the cache is full.
C40_Witness ==
  /\ Len(rrule_cache) = MAX_CACHE_SIZE
  /\ rrule_cache[MAX_CACHE_SIZE].key[1] = MAX_CACHE_SIZE + 1
  /\ rrule_cache[MAX_CACHE_SIZE - 1].key[1] = 1
  /\ rrule_cache[1].key[1] = 3
====
